---- MODULE Spec2Model ----
(***************************************************************************)
(* A model of the DICOM upper-layer engine of go-netdicom: the association *)
(* state machine (statemachine.go), the P-DATA-TF fragmenter               *)
(* (splitDataIntoPDUs, DT-1), and the DIMSE command assembler              *)
(* (dimse/command_assembler.go).                                           *)
(***************************************************************************)
EXTENDS Integers, Sequences, FiniteSets, TLC

(***************************************************************************)
(* Bounds of the model.                                                    *)
(***************************************************************************)
\* longest data payload of a DIMSE message
MaxDataLen == 3
\* events the network reader posts in one run of a lone machine
MaxNetEvents == 2
\* events the service layer posts in one run of a lone machine
MaxDowncalls == 2
\* writes a breaking transport still takes within one step
MaxWritesBeforeBreak == 1

(***************************************************************************)
(* Bytes: a byte string is a sequence of numbers 0..255.                   *)
(***************************************************************************)
LE16(n) == <<n % 256, (n \div 256) % 256>>

LE32(n) == <<n % 256, (n \div 256) % 256, (n \div 65536) % 256, (n \div 16777216) % 256>>

U16(b) == b[1] + 256 * b[2]

U32(b) == b[1] + 256 * b[2] + 65536 * b[3] + 16777216 * b[4]

Take(s, n) == SubSeq(s, 1, n)

Drop(s, n) == SubSeq(s, n + 1, Len(s))

\* n copies of the character "1"
Ones(n) == [i \in 1..n |-> 49]

(***************************************************************************)
(* Command-set tags (group 0000) and element encoding, implicit VR little  *)
(* endian: tag(4) length(4) value.                                         *)
(***************************************************************************)
TagCommandGroupLength == <<0, 0>>
TagAffectedSOPClassUID == <<0, 2>>
TagCommandField == <<0, 256>>
TagMessageID == <<0, 272>>
TagMessageIDBeingRespondedTo == <<0, 288>>
TagPriority == <<0, 1792>>
TagCommandDataSetType == <<0, 2048>>
TagStatus == <<0, 2304>>
TagAffectedSOPInstanceUID == <<0, 4096>>
TagMoveOriginatorApplicationEntityTitle == <<0, 4144>>
TagMoveOriginatorMessageID == <<0, 4145>>

\* tags whose value is a 16-bit unsigned number
UInt16Tags == {TagCommandField, TagMessageID, TagMessageIDBeingRespondedTo, TagPriority,
               TagCommandDataSetType, TagStatus, TagMoveOriginatorMessageID}

\* a string value is padded to even length
PadEven(s) == IF Len(s) % 2 = 1 THEN s \o <<0>> ELSE s

RECURSIVE TrimPad(_)
TrimPad(s) == IF Len(s) > 0 /\ s[Len(s)] = 0 THEN TrimPad(Take(s, Len(s) - 1)) ELSE s

NewElementUS(tag, n) == [tag |-> tag, val |-> LE16(n)]

NewElementUL(tag, n) == [tag |-> tag, val |-> LE32(n)]

NewElementStr(tag, s) == [tag |-> tag, val |-> PadEven(s)]

WriteElement(e) == LE16(e.tag[1]) \o LE16(e.tag[2]) \o LE32(Len(e.val)) \o e.val

RECURSIVE EncodeElements(_)
EncodeElements(elems) ==
    IF elems = <<>> THEN <<>> ELSE WriteElement(Head(elems)) \o EncodeElements(Tail(elems))

\* the element parser: a sequence of elements, or an error on a truncated stream
RECURSIVE ParseElements(_)
ParseElements(raw) ==
    IF raw = <<>> THEN [err |-> FALSE, elems |-> <<>>]
    ELSE IF Len(raw) < 8 THEN [err |-> TRUE, elems |-> <<>>]
    ELSE LET n == U32(SubSeq(raw, 5, 8)) IN
         IF Len(raw) < 8 + n THEN [err |-> TRUE, elems |-> <<>>]
         ELSE LET rest == ParseElements(Drop(raw, 8 + n)) IN
              [err |-> rest.err,
               elems |-> <<[tag |-> <<U16(SubSeq(raw, 1, 2)), U16(SubSeq(raw, 3, 4))>>,
                            val |-> SubSeq(raw, 9, 8 + n)]>> \o rest.elems]

(***************************************************************************)
(* DIMSE messages.                                                         *)
(***************************************************************************)
CommandFieldCStoreRq == 1
CommandFieldCStoreRsp == 32769
CommandFieldCEchoRq == 48
CommandFieldCEchoRsp == 32816

CommandDataSetTypeNull == 257
CommandDataSetTypeNonNull == 1

NoMessage == [type |-> "nil"]

CEchoRq(id, dst) == [type |-> "CEchoRq", MessageID |-> id, CommandDataSetType |-> dst]

CEchoRsp(id, dst, st) ==
    [type |-> "CEchoRsp", MessageIDBeingRespondedTo |-> id, CommandDataSetType |-> dst,
     Status |-> st]

CStoreRq(cls, id, prio, dst, inst) ==
    [type |-> "CStoreRq", AffectedSOPClassUID |-> cls, MessageID |-> id, Priority |-> prio,
     CommandDataSetType |-> dst, AffectedSOPInstanceUID |-> inst,
     MoveOriginatorApplicationEntityTitle |-> <<>>, MoveOriginatorMessageID |-> 0]

CStoreRsp(cls, id, dst, inst, st) ==
    [type |-> "CStoreRsp", AffectedSOPClassUID |-> cls, MessageIDBeingRespondedTo |-> id,
     CommandDataSetType |-> dst, AffectedSOPInstanceUID |-> inst, Status |-> st]

HasData(m) == m.CommandDataSetType # CommandDataSetTypeNull

CommandField(m) ==
    CASE m.type = "CStoreRq" -> CommandFieldCStoreRq
      [] m.type = "CStoreRsp" -> CommandFieldCStoreRsp
      [] m.type = "CEchoRq" -> CommandFieldCEchoRq
      [] m.type = "CEchoRsp" -> CommandFieldCEchoRsp

StatusToElements(st) == <<NewElementUS(TagStatus, st)>>

CEchoRqEncode(v) ==
    EncodeElements(<<NewElementUS(TagCommandField, CommandField(v)),
                     NewElementUS(TagMessageID, v.MessageID),
                     NewElementUS(TagCommandDataSetType, v.CommandDataSetType)>>)

CEchoRspEncode(v) ==
    EncodeElements(<<NewElementUS(TagCommandField, CommandField(v)),
                     NewElementUS(TagMessageIDBeingRespondedTo, v.MessageIDBeingRespondedTo),
                     NewElementUS(TagCommandDataSetType, v.CommandDataSetType)>>
                   \o StatusToElements(v.Status))

CStoreRqEncode(v) ==
    EncodeElements(<<NewElementUS(TagCommandField, CommandField(v)),
                     NewElementStr(TagAffectedSOPClassUID, v.AffectedSOPClassUID),
                     NewElementUS(TagMessageID, v.MessageID),
                     NewElementUS(TagPriority, v.Priority),
                     NewElementUS(TagCommandDataSetType, v.CommandDataSetType),
                     NewElementStr(TagAffectedSOPInstanceUID, v.AffectedSOPInstanceUID)>>
                   \o (IF v.MoveOriginatorApplicationEntityTitle # <<>>
                       THEN <<NewElementStr(TagMoveOriginatorApplicationEntityTitle,
                                            v.MoveOriginatorApplicationEntityTitle)>>
                       ELSE <<>>)
                   \o (IF v.MoveOriginatorMessageID # 0
                       THEN <<NewElementUS(TagMoveOriginatorMessageID, v.MoveOriginatorMessageID)>>
                       ELSE <<>>))

CStoreRspEncode(v) ==
    EncodeElements(<<NewElementUS(TagCommandField, CommandField(v)),
                     NewElementStr(TagAffectedSOPClassUID, v.AffectedSOPClassUID),
                     NewElementUS(TagMessageIDBeingRespondedTo, v.MessageIDBeingRespondedTo),
                     NewElementUS(TagCommandDataSetType, v.CommandDataSetType),
                     NewElementStr(TagAffectedSOPInstanceUID, v.AffectedSOPInstanceUID)>>
                   \o StatusToElements(v.Status))

Encode(v) ==
    CASE v.type = "CStoreRq" -> CStoreRqEncode(v)
      [] v.type = "CStoreRsp" -> CStoreRspEncode(v)
      [] v.type = "CEchoRq" -> CEchoRqEncode(v)
      [] v.type = "CEchoRsp" -> CEchoRspEncode(v)

\* the command set on the wire: CommandGroupLength, then the elements
EncodeMessage(v) ==
    LET sub == Encode(v) IN
    WriteElement(NewElementUL(TagCommandGroupLength, Len(sub))) \o sub

(***************************************************************************)
(* MessageDecoder: a dataset is a sequence of elements; the decoder keeps  *)
(* the last element of each tag.                                           *)
(***************************************************************************)
HasTag(ds, tag) == \E i \in 1..Len(ds) : ds[i].tag = tag

ElemOf(ds, tag) ==
    ds[CHOOSE i \in 1..Len(ds) : ds[i].tag = tag /\ \A j \in (i + 1)..Len(ds) : ds[j].tag # tag]

\* required: an absent element is an error; optional: it reads as 0
GetUInt16(ds, tag, required) ==
    IF ~HasTag(ds, tag) THEN [err |-> required, v |-> 0]
    ELSE IF tag \notin UInt16Tags THEN [err |-> TRUE, v |-> 0]
    ELSE LET val == ElemOf(ds, tag).val IN
         [err |-> FALSE, v |-> IF Len(val) < 2 THEN 0 ELSE U16(val)]

GetString(ds, tag, required) ==
    IF ~HasTag(ds, tag) THEN [err |-> required, v |-> <<>>]
    ELSE IF tag \in UInt16Tags THEN [err |-> TRUE, v |-> <<>>]
    ELSE [err |-> FALSE, v |-> TrimPad(ElemOf(ds, tag).val)]

GetCommandDataSetType(ds) == GetUInt16(ds, TagCommandDataSetType, TRUE)

GetStatus(ds) == GetUInt16(ds, TagStatus, TRUE)

DecodeError == [err |-> TRUE, msg |-> NoMessage]

CEchoRqDecode(ds) ==
    LET id == GetUInt16(ds, TagMessageID, TRUE)
        dst == GetCommandDataSetType(ds) IN
    IF id.err \/ dst.err THEN DecodeError
    ELSE [err |-> FALSE, msg |-> CEchoRq(id.v, dst.v)]

CEchoRspDecode(ds) ==
    LET id == GetUInt16(ds, TagMessageIDBeingRespondedTo, TRUE)
        dst == GetCommandDataSetType(ds)
        st == GetStatus(ds) IN
    IF id.err \/ dst.err \/ st.err THEN DecodeError
    ELSE [err |-> FALSE, msg |-> CEchoRsp(id.v, dst.v, st.v)]

CStoreRqDecode(ds) ==
    LET cls == GetString(ds, TagAffectedSOPClassUID, TRUE)
        id == GetUInt16(ds, TagMessageID, TRUE)
        prio == GetUInt16(ds, TagPriority, TRUE)
        dst == GetCommandDataSetType(ds)
        inst == GetString(ds, TagAffectedSOPInstanceUID, TRUE)
        aet == GetString(ds, TagMoveOriginatorApplicationEntityTitle, FALSE)
        mid == GetUInt16(ds, TagMoveOriginatorMessageID, FALSE) IN
    IF cls.err \/ id.err \/ prio.err \/ dst.err \/ inst.err \/ aet.err \/ mid.err
    THEN DecodeError
    ELSE [err |-> FALSE,
          msg |-> [CStoreRq(cls.v, id.v, prio.v, dst.v, inst.v)
                     EXCEPT !.MoveOriginatorApplicationEntityTitle = aet.v,
                            !.MoveOriginatorMessageID = mid.v]]

CStoreRspDecode(ds) ==
    LET cls == GetString(ds, TagAffectedSOPClassUID, TRUE)
        id == GetUInt16(ds, TagMessageIDBeingRespondedTo, TRUE)
        dst == GetCommandDataSetType(ds)
        inst == GetString(ds, TagAffectedSOPInstanceUID, TRUE)
        st == GetStatus(ds) IN
    IF cls.err \/ id.err \/ dst.err \/ inst.err \/ st.err THEN DecodeError
    ELSE [err |-> FALSE, msg |-> CStoreRsp(cls.v, id.v, dst.v, inst.v, st.v)]

Decode(ds, commandField) ==
    CASE commandField = CommandFieldCStoreRq -> CStoreRqDecode(ds)
      [] commandField = CommandFieldCStoreRsp -> CStoreRspDecode(ds)
      [] commandField = CommandFieldCEchoRq -> CEchoRqDecode(ds)
      [] commandField = CommandFieldCEchoRsp -> CEchoRspDecode(ds)
      [] OTHER -> DecodeError

ReadMessage(ds) ==
    LET commandField == GetUInt16(ds, TagCommandField, TRUE) IN
    IF commandField.err THEN DecodeError ELSE Decode(ds, commandField.v)

(***************************************************************************)
(* DecodeDIMSECommandMap: the ad-hoc TLV parse of a short command buffer.  *)
(* A field of the result is -1 when the key is absent from the map.        *)
(***************************************************************************)
EmptyCommandMap == [CommandField |-> -1, MessageID |-> -1, Priority |-> -1]

RECURSIVE DecodeDIMSECommandMapFrom(_, _)
DecodeDIMSECommandMapFrom(raw, result) ==
    IF Len(raw) < 8 THEN result
    ELSE LET group == U16(SubSeq(raw, 1, 2))
             element == U16(SubSeq(raw, 3, 4))
             length == U32(SubSeq(raw, 5, 8)) IN
         IF Len(raw) < 8 + length THEN result
         ELSE LET val == SubSeq(raw, 9, 8 + length)
                  next ==
                      IF group = 0 /\ element = 256 /\ Len(val) >= 2
                      THEN [result EXCEPT !.CommandField = U16(val)]
                      ELSE IF group = 0 /\ element = 272 /\ Len(val) >= 2
                      THEN [result EXCEPT !.MessageID = U16(val)]
                      ELSE IF group = 0 /\ element = 2048 /\ Len(val) >= 2
                      THEN [result EXCEPT !.Priority = U16(val)]
                      ELSE result IN
              DecodeDIMSECommandMapFrom(Drop(raw, 8 + length), next)

DecodeDIMSECommandMap(raw) == DecodeDIMSECommandMapFrom(raw, EmptyCommandMap)

(***************************************************************************)
(* CommandAssembler.                                                       *)
(***************************************************************************)
\* command buffers shorter than this take the minimal interpretation
SmallCommandThreshold == 100

EmptyAssembler ==
    [contextID |-> 0, commandBytes |-> <<>>, command |-> NoMessage, dataBytes |-> <<>>,
     readAllCommand |-> FALSE, readAllData |-> FALSE]

PDV(contextID, command, last, value) ==
    [ContextID |-> contextID, Command |-> command, Last |-> last, Value |-> value]

PDataTf(items) == [type |-> "P-DATA-TF", Items |-> items]

\* the loop over the PDU's items; it stops at the first error
RECURSIVE AddItems(_, _)
AddItems(a, items) ==
    IF items = <<>> THEN [asm |-> a, err |-> ""]
    ELSE LET item == Head(items) IN
         IF a.contextID # 0 /\ a.contextID # item.ContextID
         THEN [asm |-> a, err |-> "mixed context"]
         ELSE LET a1 == [a EXCEPT !.contextID = item.ContextID] IN
              IF item.Command
              THEN LET a2 == [a1 EXCEPT !.commandBytes = @ \o item.Value] IN
                   IF item.Last /\ a2.readAllCommand
                   THEN [asm |-> a2, err |-> ">1 command chunks with the Last bit set"]
                   ELSE AddItems([a2 EXCEPT !.readAllCommand = @ \/ item.Last], Tail(items))
              ELSE LET a2 == [a1 EXCEPT !.dataBytes = @ \o item.Value] IN
                   IF item.Last /\ a2.readAllData
                   THEN [asm |-> a2, err |-> ">1 data chunks with the Last bit set"]
                   ELSE AddItems([a2 EXCEPT !.readAllData = @ \/ item.Last], Tail(items))

\* the dataset the assembler hands to ReadMessage for a complete command buffer
ParseCommandBytes(commandBytes) ==
    IF Len(commandBytes) < SmallCommandThreshold
    THEN LET data == DecodeDIMSECommandMap(commandBytes) IN
         IF data.CommandField = 48
         THEN [err |-> FALSE,
               elems |-> <<NewElementUS(TagCommandField, 48),
                           NewElementUS(TagMessageID,
                                        IF data.MessageID # -1 THEN data.MessageID ELSE 1),
                           NewElementUS(TagCommandDataSetType,
                                        IF data.Priority # -1 THEN data.Priority ELSE 257)>>]
         ELSE [err |-> FALSE, elems |-> <<>>]
    ELSE ParseElements(commandBytes)

AssemblerResult(a, contextID, command, data, err) ==
    [asm |-> a, contextID |-> contextID, command |-> command, data |-> data, err |-> err]

\* the end of AddDataPDU without the reset of the assembler
assembledWithoutReset(a, command) ==
    IF HasData(command) /\ ~a.readAllData
    THEN AssemblerResult([a EXCEPT !.command = command], 0, NoMessage, <<>>, "")
    ELSE AssemblerResult([a EXCEPT !.command = command], a.contextID, command, a.dataBytes, "")

\* the end of AddDataPDU: a message whose data is still missing stays in the assembler,
\* a complete one is returned and the assembler is reset
assembled(a, command) ==
    IF HasData(command) /\ ~a.readAllData
    THEN AssemblerResult([a EXCEPT !.command = command], 0, NoMessage, <<>>, "")
    ELSE AssemblerResult(EmptyAssembler, a.contextID, command, a.dataBytes, "")

\* AddDataPDU after ReadMessage
commandRead(a, read) ==
    IF read.err THEN AssemblerResult(a, 0, NoMessage, <<>>, "failed to read message")
    ELSE assembled(a, read.msg)

\* AddDataPDU after the command bytes were parsed
commandParsed(a, parser) ==
    IF parser.err THEN AssemblerResult(a, 0, NoMessage, <<>>, "failed to parse command bytes")
    ELSE commandRead(a, ReadMessage(parser.elems))

\* AddDataPDU after the loop over the items
itemsAdded(r) ==
    IF r.err # "" THEN AssemblerResult(r.asm, 0, NoMessage, <<>>, r.err)
    ELSE IF ~r.asm.readAllCommand THEN AssemblerResult(r.asm, 0, NoMessage, <<>>, "")
    ELSE IF r.asm.command = NoMessage
    THEN commandParsed(r.asm, ParseCommandBytes(r.asm.commandBytes))
    ELSE assembled(r.asm, r.asm.command)

AddDataPDU(commandAssembler, pdu) == itemsAdded(AddItems(commandAssembler, pdu.Items))

(***************************************************************************)
(* Context manager: the negotiated contexts and the peer's maximum PDU     *)
(* size.                                                                   *)
(***************************************************************************)
VerificationSOPClass == "1.2.840.10008.1.1"

StorageSOPClass == "1.2.840.10008.5.1.4.1.1.2"

ImplicitVRLittleEndian == "1.2.840.10008.1.2"

newContextManager == [peerMaxPDUSize |-> 0, byAbstractSyntax |-> <<>>]

\* the context ID recorded for an abstract syntax; 0 when there is none
lookupByAbstractSyntaxUID(cm, name) ==
    IF \E i \in 1..Len(cm.byAbstractSyntax) : cm.byAbstractSyntax[i].abstractSyntax = name
    THEN (CHOOSE c \in {cm.byAbstractSyntax[i] : i \in 1..Len(cm.byAbstractSyntax)} :
              c.abstractSyntax = name).contextID
    ELSE 0

(***************************************************************************)
(* splitDataIntoPDUs: the P-DATA-TF PDUs that carry data, or a panic.      *)
(***************************************************************************)
\* bytes of a P-DATA-TF that splitDataIntoPDUs reserves for headers
ChunkOverhead == 8

maxChunkSize(cm) == cm.peerMaxPDUSize - ChunkOverhead

\* the bytes of fragment i when data is cut into chunks of at most chunk bytes
chunkOf(data, chunk, i) ==
    SubSeq(data, (i - 1) * chunk + 1, IF i * chunk > Len(data) THEN Len(data) ELSE i * chunk)

\* splitChunks setting the Last flag on every fragment
splitChunksAllLast(contextID, command, data, chunk) ==
    [i \in 1..((Len(data) + chunk - 1) \div chunk) |->
        PDataTf(<<PDV(contextID, command, TRUE, chunkOf(data, chunk, i))>>)]

\* the loop of splitDataIntoPDUs: one PDU of one PDV per chunk, in order, the last one
\* with the Last flag
splitChunks(contextID, command, data, chunk) ==
    [i \in 1..((Len(data) + chunk - 1) \div chunk) |->
        PDataTf(<<PDV(contextID, command, i * chunk >= Len(data), chunkOf(data, chunk, i))>>)]

splitDataIntoPDUs(cm, abstractSyntaxName, command, data) ==
    IF Len(data) = 0 \/ lookupByAbstractSyntaxUID(cm, abstractSyntaxName) = 0
       \/ maxChunkSize(cm) <= 0
    THEN [panic |-> TRUE, pdus |-> <<>>]
    ELSE [panic |-> FALSE,
          pdus |-> splitChunks(lookupByAbstractSyntaxUID(cm, abstractSyntaxName), command,
                               data, maxChunkSize(cm))]

(***************************************************************************)
(* The PDUs DT-1 and AR-7 hand to sendPDU for one DIMSE payload, in order: *)
(* the command fragments, then the data fragments; panic is set when the   *)
(* action panics (after the PDUs listed have been handed over).            *)
(***************************************************************************)
DimsePayload(abstractSyntaxName, command, data) ==
    [abstractSyntaxName |-> abstractSyntaxName, command |-> command, data |-> data]

\* the data fragments handed over before the command fragments
dimsePDUsDataFirst(cm, payload) ==
    LET cmd == splitDataIntoPDUs(cm, payload.abstractSyntaxName, TRUE,
                                 EncodeMessage(payload.command)) IN
    IF cmd.panic THEN [panic |-> TRUE, pdus |-> <<>>]
    ELSE IF HasData(payload.command)
    THEN LET dat == splitDataIntoPDUs(cm, payload.abstractSyntaxName, FALSE, payload.data) IN
         [panic |-> dat.panic, pdus |-> dat.pdus \o cmd.pdus]
    ELSE [panic |-> Len(payload.data) > 0, pdus |-> cmd.pdus]

dimsePDUs(cm, payload) ==
    LET cmd == splitDataIntoPDUs(cm, payload.abstractSyntaxName, TRUE,
                                 EncodeMessage(payload.command)) IN
    IF cmd.panic THEN [panic |-> TRUE, pdus |-> <<>>]
    ELSE IF HasData(payload.command)
    THEN LET dat == splitDataIntoPDUs(cm, payload.abstractSyntaxName, FALSE, payload.data) IN
         [panic |-> dat.panic, pdus |-> cmd.pdus \o dat.pdus]
    ELSE [panic |-> Len(payload.data) > 0, pdus |-> cmd.pdus]

(***************************************************************************)
(* States and events of the association state machine.                     *)
(***************************************************************************)
sta01 == 1
sta02 == 2
sta03 == 3
sta04 == 4
sta05 == 5
sta06 == 6
sta07 == 7
sta08 == 8
sta09 == 9
sta10 == 10
sta11 == 11
sta12 == 12
sta13 == 13

evt01 == 1
evt02 == 2
evt03 == 3
evt04 == 4
evt05 == 5
evt06 == 6
evt07 == 7
evt08 == 8
evt09 == 9
evt10 == 10
evt11 == 11
evt12 == 12
evt13 == 13
evt14 == 14
evt15 == 15
evt16 == 16
evt17 == 17
evt18 == 18
evt19 == 19

States == sta01..sta13

Events == evt01..evt19

(***************************************************************************)
(* PDUs and their sub-items.                                               *)
(***************************************************************************)
CurrentProtocolVersion == 1

DefaultMaxPDUSize == 4 * 1024 * 1024

ResultRejectedPermanent == 1

SourceULServiceProviderACSE == 2

NoPDU == [type |-> "none"]

PresentationContextItem(id, abstractSyntax, transferSyntaxes, result) ==
    [kind |-> "PresentationContext", ContextID |-> id, AbstractSyntax |-> abstractSyntax,
     TransferSyntaxes |-> transferSyntaxes, Result |-> result, MaximumLength |-> 0]

UserInformationItem(maximumLength) ==
    [kind |-> "UserInformation", ContextID |-> 0, AbstractSyntax |-> "",
     TransferSyntaxes |-> <<>>, Result |-> 0, MaximumLength |-> maximumLength]

AAssociateRQ(version, called, calling, items) ==
    [type |-> "A-ASSOCIATE-RQ", ProtocolVersion |-> version, CalledAETitle |-> called,
     CallingAETitle |-> calling, Items |-> items]

AAssociateAC(version, called, calling, items) ==
    [type |-> "A-ASSOCIATE-AC", ProtocolVersion |-> version, CalledAETitle |-> called,
     CallingAETitle |-> calling, Items |-> items]

AAssociateRj(result, source, reason) ==
    [type |-> "A-ASSOCIATE-RJ", Result |-> result, Source |-> source, Reason |-> reason]

AReleaseRq == [type |-> "A-RELEASE-RQ"]

AReleaseRp == [type |-> "A-RELEASE-RP"]

AAbort(source, reason) == [type |-> "A-ABORT", Source |-> source, Reason |-> reason]

\* EncodePDU fails for an A-ASSOCIATE-RQ with an empty AE title
EncodePDUFails(v) ==
    v.type = "A-ASSOCIATE-RQ" /\ (v.CalledAETitle = "" \/ v.CallingAETitle = "")

(***************************************************************************)
(* Context manager operations of the handshake.                            *)
(***************************************************************************)
SupportedSOPClasses == {VerificationSOPClass, StorageSOPClass}

SupportedTransferSyntaxes == {ImplicitVRLittleEndian}

IsPresentationContext(item) == item.kind = "PresentationContext"

IsUserInformation(item) == item.kind = "UserInformation"

extractPresentationContextItems(items) == SelectSeq(items, IsPresentationContext)

PeerMaximumLength(items) ==
    LET ui == SelectSeq(items, IsUserInformation) IN
    IF ui = <<>> THEN 0 ELSE ui[1].MaximumLength

generateAssociateRequest(sopClasses, transferSyntaxes) ==
    [i \in 1..Len(sopClasses) |->
        PresentationContextItem(2 * i - 1, sopClasses[i], transferSyntaxes, 0)]
    \o <<UserInformationItem(DefaultMaxPDUSize)>>

\* the acceptor's answer to one proposed context
AnswerContext(item) ==
    LET usable(ts) == ts \in SupportedTransferSyntaxes
        common == SelectSeq(item.TransferSyntaxes, usable) IN
    IF item.AbstractSyntax \notin SupportedSOPClasses
    THEN PresentationContextItem(item.ContextID, item.AbstractSyntax, <<>>, 3)
    ELSE IF common = <<>>
    THEN PresentationContextItem(item.ContextID, item.AbstractSyntax, <<>>, 4)
    ELSE PresentationContextItem(item.ContextID, item.AbstractSyntax, <<common[1]>>, 0)

IsAccepted(item) == item.kind = "PresentationContext" /\ item.Result = 0

ContextOf(item) ==
    [contextID |-> item.ContextID, abstractSyntax |-> item.AbstractSyntax,
     transferSyntax |-> item.TransferSyntaxes[1]]

MapSeq(seq, F(_)) == [i \in 1..Len(seq) |-> F(seq[i])]

onAssociateRequest(cm, items) ==
    LET answers == MapSeq(extractPresentationContextItems(items), AnswerContext)
        accepted == SelectSeq(answers, IsAccepted) IN
    IF SelectSeq(items, IsUserInformation) = <<>> \/ accepted = <<>>
    THEN [err |-> TRUE, cm |-> cm, responses |-> <<>>]
    ELSE [err |-> FALSE,
          cm |-> [peerMaxPDUSize |-> PeerMaximumLength(items),
                  byAbstractSyntax |-> MapSeq(accepted, ContextOf)],
          responses |-> answers \o <<UserInformationItem(DefaultMaxPDUSize)>>]

onAssociateResponse(cm, items) ==
    LET accepted == SelectSeq(items, IsAccepted) IN
    IF accepted = <<>> THEN [err |-> TRUE, cm |-> cm]
    ELSE [err |-> FALSE,
          cm |-> [peerMaxPDUSize |-> PeerMaximumLength(items),
                  byAbstractSyntax |-> MapSeq(accepted, ContextOf)]]

(***************************************************************************)
(* The state machine: one record per machine.                              *)
(*   conn        "nil" or "set": the machine's reference to the socket     *)
(*   sock        "none" (not dialed yet), "open" or "closed" (by Close)    *)
(*   writesLeft  writes the transport still takes; -1 when it is healthy   *)
(*   wire        the PDUs the last step wrote to the socket, in order      *)
(*   upcalls     the events sent on the upcall channel, in order           *)
(*   upcallCloses  how many times close was called on the upcall channel   *)
(*   netCh, errorCh, downcallCh  the queued events of each channel         *)
(*   netChState, downcallState   "open", "closed" (by its owner) or "nil"  *)
(*   timer       the channel timerCh refers to: "nil", "inert" (a fresh    *)
(*               channel no timer writes to), "armed" (its timer has not   *)
(*               fired), "fired" (the tick is in it), "drained" (the    *)
(*               tick was taken)                                           *)
(*   pc          "run", "done" (the loop exited), "panic" or "blocked"     *)
(*   lastState, lastEvent, lastAction  the step runOneStep took last       *)
(*   entered06   how many steps took the machine from another state to     *)
(*               sta06                                                     *)
(***************************************************************************)
ErrorChCapacity == 128

Event(e, pdu, payload) == [event |-> e, pdu |-> pdu, dimsePayload |-> payload]

NoPayload == [abstractSyntaxName |-> "", command |-> NoMessage, data |-> <<>>]

PlainEvent(e) == Event(e, NoPDU, NoPayload)

Fail(s, how) == IF s.pc = "run" THEN [s EXCEPT !.pc = how] ELSE s

closeConnection(s) ==
    IF s.pc # "run" THEN s
    ELSE IF s.upcallCloses > 0 THEN Fail([s EXCEPT !.upcallCloses = @ + 1], "panic")
    ELSE [s EXCEPT !.upcallCloses = @ + 1,
                   !.sock = IF s.conn # "nil" THEN "closed" ELSE @]

\* the failure path of sendPDU: close the socket, post evt17 on the error channel
sendFailed(s) ==
    IF Len(s.errorCh) >= ErrorChCapacity THEN Fail([s EXCEPT !.sock = "closed"], "blocked")
    ELSE [s EXCEPT !.sock = "closed", !.errorCh = Append(@, PlainEvent(evt17))]

sendPDU(s, v) ==
    IF s.pc # "run" THEN s
    ELSE IF s.conn = "nil" THEN Fail(s, "panic")
    ELSE IF EncodePDUFails(v) THEN sendFailed(s)
    ELSE IF s.sock # "open" \/ s.writesLeft = 0 THEN sendFailed(s)
    ELSE [s EXCEPT !.wire = Append(@, v),
                   !.writesLeft = IF @ > 0 THEN @ - 1 ELSE @]

\* sendPDU called for each PDU of pdus in turn, as the loops of DT-1 and AR-7
\* do: the writes go through until the first one that fails, which closes
\* the socket, so that every later sendPDU fails too; each failure posts one
\* evt17 on the error channel, and the one that finds the channel full blocks
sendPDUs(s, pdus) ==
    IF pdus = <<>> \/ s.pc # "run" THEN s
    ELSE IF s.conn = "nil" THEN Fail(s, "panic")
    ELSE LET n == Len(pdus)
             good == {i \in 0..n : \A j \in 1..i : ~EncodePDUFails(pdus[j])}
             encodable == CHOOSE i \in good : \A k \in good : k <= i
             writable == IF s.sock # "open" THEN 0
                         ELSE IF s.writesLeft < 0 \/ s.writesLeft > n THEN n
                         ELSE s.writesLeft
             written == IF encodable < writable THEN encodable ELSE writable
             failed == n - written
             room == ErrorChCapacity - Len(s.errorCh)
             posted == IF failed < room THEN failed ELSE room
             t == [s EXCEPT !.wire = @ \o SubSeq(pdus, 1, written),
                            !.writesLeft = IF @ > 0 THEN @ - written ELSE @,
                            !.sock = IF failed > 0 THEN "closed" ELSE @,
                            !.errorCh = @ \o [i \in 1..posted |-> PlainEvent(evt17)]]
         IN IF failed > room THEN Fail(t, "blocked") ELSE t

startTimer(s) == IF s.pc # "run" THEN s ELSE [s EXCEPT !.timer = "armed"]

restartTimer(s) == startTimer(s)

stopTimer(s) == IF s.pc # "run" THEN s ELSE [s EXCEPT !.timer = "inert"]

\* a send on the upcall channel: a panic once the channel is closed
sendUpcall(s, up) ==
    IF s.pc # "run" THEN s
    ELSE IF s.upcallCloses > 0 THEN Fail(s, "panic")
    ELSE [s EXCEPT !.upcalls = Append(@, up)]

\* a send on the downcall channel by the machine itself: it blocks for ever on a
\* nil channel and panics on a closed one
sendDowncall(s, ev) ==
    IF s.pc # "run" THEN s
    ELSE IF s.downcallState = "nil" THEN Fail(s, "blocked")
    ELSE IF s.downcallState = "closed" THEN Fail(s, "panic")
    ELSE [s EXCEPT !.downcallCh = Append(@, ev)]

HandshakeCompleted == [eventType |-> "HandshakeCompleted", contextID |-> 0,
                       command |-> NoMessage, data |-> <<>>]

DataIndication(contextID, command, data) ==
    [eventType |-> "Data", contextID |-> contextID, command |-> command, data |-> data]

\* the action returns its next state
Return(s, next) == IF s.pc # "run" THEN s ELSE [s EXCEPT !.currentState = next]

(***************************************************************************)
(* The actions.                                                            *)
(***************************************************************************)
actionAe1(s, event) == Return(s, sta04)

\* AE-2 with the AE titles of the request exchanged
actionAe2SwappedTitles(s, event) ==
    LET s1 == [s EXCEPT !.conn = "set", !.reader = "running"]
        rq == AAssociateRQ(CurrentProtocolVersion, s.userParams.CallingAETitle,
                           s.userParams.CalledAETitle,
                           generateAssociateRequest(s.userParams.SOPClasses,
                                                    s.userParams.TransferSyntaxes)) IN
    Return(startTimer(sendPDU(s1, rq)), sta05)

actionAe2(s, event) ==
    LET s1 == [s EXCEPT !.conn = "set", !.reader = "running"]
        rq == AAssociateRQ(CurrentProtocolVersion, s.userParams.CalledAETitle,
                           s.userParams.CallingAETitle,
                           generateAssociateRequest(s.userParams.SOPClasses,
                                                    s.userParams.TransferSyntaxes)) IN
    Return(startTimer(sendPDU(s1, rq)), sta05)

\* AA-8 without the start of the ARTIM timer
actionAa8NoTimer(s, event) == Return(sendPDU(s, AAbort(2, 0)), sta13)

actionAa8(s, event) == Return(startTimer(sendPDU(s, AAbort(2, 0))), sta13)

\* AE-3 without stopping the ARTIM timer
actionAe3NoStop(s, event) ==
    LET r == onAssociateResponse(s.contextManager, event.pdu.Items) IN
    IF ~r.err
    THEN Return(sendUpcall([s EXCEPT !.contextManager = r.cm], HandshakeCompleted), sta06)
    ELSE actionAa8(s, event)

actionAe3(s, event) ==
    LET s1 == stopTimer(s)
        r == onAssociateResponse(s1.contextManager, event.pdu.Items) IN
    IF ~r.err
    THEN Return(sendUpcall([s1 EXCEPT !.contextManager = r.cm], HandshakeCompleted), sta06)
    ELSE actionAa8(s1, event)

actionAe4(s, event) == Return(closeConnection(s), sta01)

\* AE-5 without the start of the ARTIM timer
actionAe5NoTimer(s, event) == Return([s EXCEPT !.reader = "running"], sta02)

actionAe5(s, event) == Return([startTimer(s) EXCEPT !.reader = "running"], sta02)

\* AE-6 without the check of the protocol version
actionAe6AnyVersion(s, event) ==
    LET s1 == stopTimer(s)
        v == event.pdu
        r == onAssociateRequest(s1.contextManager, v.Items) IN
    IF r.err
    THEN Return(sendDowncall(s1, Event(evt08, AAssociateRj(ResultRejectedPermanent,
                                                         SourceULServiceProviderACSE, 1),
                                       NoPayload)), sta03)
    ELSE IF v.CalledAETitle = "" \/ v.CallingAETitle = "" THEN Fail(s1, "panic")
    ELSE Return(sendDowncall([s1 EXCEPT !.contextManager = r.cm],
                             Event(evt07, AAssociateAC(CurrentProtocolVersion, v.CalledAETitle,
                                                       v.CallingAETitle, r.responses),
                                   NoPayload)), sta03)

actionAe6(s, event) ==
    LET s1 == stopTimer(s)
        v == event.pdu
        r == onAssociateRequest(s1.contextManager, v.Items) IN
    IF v.ProtocolVersion # 1
    THEN Return(startTimer(sendPDU(s1, AAssociateRj(1, 2, 2))), sta13)
    ELSE IF r.err
    THEN Return(sendDowncall(s1, Event(evt08, AAssociateRj(ResultRejectedPermanent,
                                                         SourceULServiceProviderACSE, 1),
                                       NoPayload)), sta03)
    ELSE IF v.CalledAETitle = "" \/ v.CallingAETitle = "" THEN Fail(s1, "panic")
    ELSE Return(sendDowncall([s1 EXCEPT !.contextManager = r.cm],
                             Event(evt07, AAssociateAC(CurrentProtocolVersion, v.CalledAETitle,
                                                       v.CallingAETitle, r.responses),
                                   NoPayload)), sta03)

\* AE-7 without the HandshakeCompleted upcall
actionAe7Silent(s, event) == Return(sendPDU(s, event.pdu), sta06)

actionAe7(s, event) == Return(sendUpcall(sendPDU(s, event.pdu), HandshakeCompleted), sta06)

\* AE-8 without the start of the ARTIM timer
actionAe8NoTimer(s, event) == Return(sendPDU(s, event.pdu), sta13)

actionAe8(s, event) == Return(startTimer(sendPDU(s, event.pdu)), sta13)

\* the sends of DT-1 and AR-7 for the event's payload
sendDimsePDUs(s, event, out) ==
    IF event.dimsePayload.command = NoMessage THEN Fail(s, "panic")
    ELSE IF out.panic THEN Fail(sendPDUs(s, out.pdus), "panic")
    ELSE sendPDUs(s, out.pdus)

sendDimse(s, event) == sendDimsePDUs(s, event, dimsePDUs(s.contextManager, event.dimsePayload))

actionDt1(s, event) == Return(sendDimse(s, event), sta06)

\* DT-2 that goes on in sta06 when AddDataPDU returns an error
dataAddedIgnoringError(s, event, r) ==
    IF r.err = "" /\ r.command # NoMessage
    THEN Return(sendUpcall(s, DataIndication(r.contextID, r.command, r.data)), sta06)
    ELSE Return(s, sta06)

\* DT-2 once AddDataPDU has returned r into the assembler of s
dataAdded(s, event, r) ==
    IF r.err = ""
    THEN IF r.command # NoMessage
         THEN Return(sendUpcall(s, DataIndication(r.contextID, r.command, r.data)), sta06)
         ELSE Return(s, sta06)
    ELSE actionAa8(s, event)

\* DT-2 with the result r of AddDataPDU
actionDt2With(s, event, r) == dataAdded([s EXCEPT !.commandAssembler = r.asm], event, r)

actionDt2(s, event) == actionDt2With(s, event, AddDataPDU(s.commandAssembler, event.pdu))

actionAr1(s, event) == Return(sendPDU(s, AReleaseRq), sta07)

actionAr2(s, event) == Return(sendDowncall(s, PlainEvent(evt14)), sta08)

\* AR-3 without closing the connection
actionAr3NoClose(s, event) == Return(sendPDU(s, AReleaseRp), sta01)

actionAr3(s, event) == Return(closeConnection(sendPDU(s, AReleaseRp)), sta01)

actionAr4(s, event) == Return(startTimer(sendPDU(s, AReleaseRp)), sta13)

\* AR-5 staying in sta13
actionAr5Stay(s, event) == Return(stopTimer(s), sta13)

actionAr5(s, event) == Return(stopTimer(s), sta01)

actionAr6(s, event) == Return(s, sta07)

\* AR-7 without the evt14 it posts
actionAr7NoPost(s, event) == Return(sendDimse(s, event), sta08)

actionAr7(s, event) == Return(sendDowncall(sendDimse(s, event), PlainEvent(evt14)), sta08)

\* AR-8 taking the acceptor's side whatever the role
actionAr8AsAcceptor(s, event) == Return(s, sta10)

actionAr8(s, event) == IF s.isUser THEN Return(s, sta09) ELSE Return(s, sta10)

actionAr9(s, event) == Return(sendPDU(s, AReleaseRp), sta11)

\* AR-10 answering with an A-RELEASE-RP
actionAr10SendsRp(s, event) == Return(sendPDU(s, AReleaseRp), sta12)

actionAr10(s, event) == Return(s, sta12)

actionAa1(s, event) ==
    LET diagnostic == IF s.currentState = sta02 THEN 2 ELSE 0 IN
    Return(restartTimer(sendPDU(s, AAbort(0, diagnostic))), sta13)

\* AA-2 without closing the connection
actionAa2NoClose(s, event) == Return(stopTimer(s), sta01)

actionAa2(s, event) == Return(closeConnection(stopTimer(s)), sta01)

\* AA-3 going on in sta06 once it has closed the connection
actionAa3Stay(s, event) == Return(closeConnection(s), sta06)

actionAa3(s, event) == Return(closeConnection(s), sta01)

\* AA-4 closing the connection as AA-3 does
actionAa4Closing(s, event) == Return(closeConnection(s), sta01)

\* AA-4 sending an A-ABORT as AA-8 does
actionAa4Aborting(s, event) == Return(sendPDU(s, AAbort(2, 0)), sta01)

actionAa4(s, event) == Return(s, sta01)

actionAa5(s, event) == Return(stopTimer(s), sta01)

actionAa6(s, event) == Return(s, sta13)

actionAa7(s, event) == Return(sendPDU(s, AAbort(0, 0)), sta13)

Callback(action, s, event) ==
    CASE action = "AE-1" -> actionAe1(s, event)
      [] action = "AE-2" -> actionAe2(s, event)
      [] action = "AE-3" -> actionAe3(s, event)
      [] action = "AE-4" -> actionAe4(s, event)
      [] action = "AE-5" -> actionAe5(s, event)
      [] action = "AE-6" -> actionAe6(s, event)
      [] action = "AE-7" -> actionAe7(s, event)
      [] action = "AE-8" -> actionAe8(s, event)
      [] action = "DT-1" -> actionDt1(s, event)
      [] action = "DT-2" -> actionDt2(s, event)
      [] action = "AR-1" -> actionAr1(s, event)
      [] action = "AR-2" -> actionAr2(s, event)
      [] action = "AR-3" -> actionAr3(s, event)
      [] action = "AR-4" -> actionAr4(s, event)
      [] action = "AR-5" -> actionAr5(s, event)
      [] action = "AR-6" -> actionAr6(s, event)
      [] action = "AR-7" -> actionAr7(s, event)
      [] action = "AR-8" -> actionAr8(s, event)
      [] action = "AR-9" -> actionAr9(s, event)
      [] action = "AR-10" -> actionAr10(s, event)
      [] action = "AA-1" -> actionAa1(s, event)
      [] action = "AA-2" -> actionAa2(s, event)
      [] action = "AA-3" -> actionAa3(s, event)
      [] action = "AA-4" -> actionAa4(s, event)
      [] action = "AA-5" -> actionAa5(s, event)
      [] action = "AA-6" -> actionAa6(s, event)
      [] action = "AA-7" -> actionAa7(s, event)
      [] action = "AA-8" -> actionAa8(s, event)

stateTransitions ==
       <<1, 1>> :> "AE-1" @@ <<1, 5>> :> "AE-5" @@ <<2, 3>> :> "AA-1" @@ <<2, 4>> :> "AA-1"
    @@ <<2, 6>> :> "AE-6" @@ <<2, 10>> :> "AA-1" @@ <<2, 12>> :> "AA-1" @@ <<2, 13>> :> "AA-1"
    @@ <<2, 16>> :> "AA-2" @@ <<2, 17>> :> "AA-5" @@ <<2, 18>> :> "AA-2" @@ <<2, 19>> :> "AA-1"
    @@ <<3, 3>> :> "AA-8" @@ <<3, 4>> :> "AA-8" @@ <<3, 6>> :> "AA-8" @@ <<3, 7>> :> "AE-7"
    @@ <<3, 8>> :> "AE-8" @@ <<3, 10>> :> "AA-8" @@ <<3, 12>> :> "AA-8" @@ <<3, 13>> :> "AA-8"
    @@ <<3, 15>> :> "AA-1" @@ <<3, 16>> :> "AA-3" @@ <<3, 17>> :> "AA-4" @@ <<3, 19>> :> "AA-8"
    @@ <<4, 2>> :> "AE-2" @@ <<4, 15>> :> "AA-2" @@ <<4, 17>> :> "AA-4" @@ <<5, 3>> :> "AE-3"
    @@ <<5, 4>> :> "AE-4" @@ <<5, 6>> :> "AA-8" @@ <<5, 10>> :> "AA-8" @@ <<5, 12>> :> "AA-8"
    @@ <<5, 13>> :> "AA-8" @@ <<5, 15>> :> "AA-1" @@ <<5, 16>> :> "AA-3" @@ <<5, 17>> :> "AA-4"
    @@ <<5, 18>> :> "AA-8" @@ <<5, 19>> :> "AA-8" @@ <<6, 3>> :> "AA-8" @@ <<6, 4>> :> "AA-8"
    @@ <<6, 6>> :> "AA-8" @@ <<6, 9>> :> "DT-1" @@ <<6, 10>> :> "DT-2" @@ <<6, 11>> :> "AR-1"
    @@ <<6, 12>> :> "AR-2" @@ <<6, 13>> :> "AA-8" @@ <<6, 15>> :> "AA-1" @@ <<6, 16>> :> "AA-3"
    @@ <<6, 17>> :> "AA-4" @@ <<6, 19>> :> "AA-8" @@ <<7, 3>> :> "AA-8" @@ <<7, 4>> :> "AA-8"
    @@ <<7, 6>> :> "AA-8" @@ <<7, 10>> :> "AR-6" @@ <<7, 12>> :> "AR-8" @@ <<7, 13>> :> "AR-3"
    @@ <<7, 15>> :> "AA-1" @@ <<7, 16>> :> "AA-3" @@ <<7, 17>> :> "AA-4" @@ <<7, 19>> :> "AA-8"
    @@ <<8, 3>> :> "AA-8" @@ <<8, 4>> :> "AA-8" @@ <<8, 6>> :> "AA-8" @@ <<8, 9>> :> "AR-7"
    @@ <<8, 10>> :> "AA-8" @@ <<8, 12>> :> "AA-8" @@ <<8, 13>> :> "AA-8" @@ <<8, 14>> :> "AR-4"
    @@ <<8, 15>> :> "AA-1" @@ <<8, 16>> :> "AA-3" @@ <<8, 17>> :> "AA-4" @@ <<8, 19>> :> "AA-8"
    @@ <<9, 3>> :> "AA-8" @@ <<9, 4>> :> "AA-8" @@ <<9, 6>> :> "AA-8" @@ <<9, 10>> :> "AA-8"
    @@ <<9, 12>> :> "AA-8" @@ <<9, 13>> :> "AA-8" @@ <<9, 14>> :> "AR-9" @@ <<9, 15>> :> "AA-1"
    @@ <<9, 16>> :> "AA-3" @@ <<9, 17>> :> "AA-4" @@ <<9, 19>> :> "AA-8" @@ <<10, 3>> :> "AA-8"
    @@ <<10, 4>> :> "AA-8" @@ <<10, 6>> :> "AA-8" @@ <<10, 10>> :> "AA-8" @@ <<10, 12>> :> "AA-8"
    @@ <<10, 13>> :> "AR-10" @@ <<10, 15>> :> "AA-1" @@ <<10, 16>> :> "AA-3" @@ <<10, 17>> :> "AA-4"
    @@ <<10, 19>> :> "AA-8" @@ <<11, 3>> :> "AA-8" @@ <<11, 4>> :> "AA-8" @@ <<11, 6>> :> "AA-8"
    @@ <<11, 10>> :> "AA-8" @@ <<11, 12>> :> "AA-8" @@ <<11, 13>> :> "AR-3" @@ <<11, 15>> :> "AA-1"
    @@ <<11, 16>> :> "AA-3" @@ <<11, 17>> :> "AA-4" @@ <<11, 19>> :> "AA-8" @@ <<12, 3>> :> "AA-8"
    @@ <<12, 4>> :> "AA-8" @@ <<12, 6>> :> "AA-8" @@ <<12, 10>> :> "AA-8" @@ <<12, 12>> :> "AA-8"
    @@ <<12, 13>> :> "AA-8" @@ <<12, 14>> :> "AR-4" @@ <<12, 15>> :> "AA-1" @@ <<12, 16>> :> "AA-3"
    @@ <<12, 17>> :> "AA-4" @@ <<12, 19>> :> "AA-8" @@ <<13, 3>> :> "AA-6" @@ <<13, 4>> :> "AA-6"
    @@ <<13, 6>> :> "AA-7" @@ <<13, 7>> :> "AA-7" @@ <<13, 8>> :> "AA-7" @@ <<13, 9>> :> "AA-7"
    @@ <<13, 10>> :> "AA-6" @@ <<13, 11>> :> "AA-6" @@ <<13, 12>> :> "AA-6" @@ <<13, 13>> :> "AA-6"
    @@ <<13, 14>> :> "AA-6" @@ <<13, 15>> :> "AA-2" @@ <<13, 16>> :> "AA-2" @@ <<13, 17>> :> "AR-5"
    @@ <<13, 18>> :> "AA-2" @@ <<13, 19>> :> "AA-7"

\* the action of the table, or "nil"
findAction(currentState, event) ==
    IF <<currentState, event.event>> \in DOMAIN stateTransitions
    THEN stateTransitions[<<currentState, event.event>>]
    ELSE "nil"

\* what getNextEvent does with the event it received, before returning it
getNextEventSwitch(s, event) ==
    IF event.event = evt02 THEN [s EXCEPT !.conn = "set"]
    ELSE IF event.event = evt17
    THEN IF s.upcallCloses > 0 THEN Fail([s EXCEPT !.upcallCloses = @ + 1], "panic")
         ELSE [s EXCEPT !.upcallCloses = @ + 1, !.conn = "nil"]
    ELSE s

\* the action runOneStep runs: the table's, or AA-2
actionFor(found) == IF found = "nil" THEN "AA-2" ELSE found

\* the step's record: the state and event it started from and the action it ran
stepTaken(s, state, event, action) ==
    [s EXCEPT !.lastState = state, !.lastEvent = event.event, !.lastAction = action,
              !.entered06 = IF state # sta06 /\ s.currentState = sta06 THEN @ + 1 ELSE @]

\* the loop of runStateMachine ends once the current state is sta01
loopExit(s) ==
    IF s.pc = "run" /\ s.currentState = sta01 THEN [s EXCEPT !.pc = "done"] ELSE s

runAction(s, state, event, action) ==
    loopExit(stepTaken(Callback(action, s, event), state, event, action))

runEvent(s, state, event) ==
    runAction(s, state, event, actionFor(findAction(s.currentState, event)))

\* runOneStep for an event that getNextEvent received
runOneStep(s, event) == runEvent(getNextEventSwitch(s, event), s.currentState, event)

(***************************************************************************)
(* Inputs: DIMSE messages, data payloads and peer PDU sizes.               *)
(***************************************************************************)
\* a UID of 3 characters and one of 26
ShortUID == Ones(3)

LongUID == Ones(26)

Messages ==
    {CEchoRq(1, CommandDataSetTypeNull), CEchoRq(2, CommandDataSetTypeNonNull),
     CEchoRsp(1, CommandDataSetTypeNull, 0),
     CStoreRq(ShortUID, 1, 0, CommandDataSetTypeNonNull, ShortUID),
     CStoreRq(LongUID, 1, 0, CommandDataSetTypeNonNull, LongUID),
     CStoreRsp(ShortUID, 1, CommandDataSetTypeNull, ShortUID, 0),
     CStoreRsp(LongUID, 1, CommandDataSetTypeNull, LongUID, 0)}

\* the payload of n bytes: byte i has the value i
DataOf(n) == [i \in 1..n |-> i % 256]

\* the payloads a message may be sent with: none without data, non-empty with data
PayloadsOf(m) == IF HasData(m) THEN {DataOf(n) : n \in 1..MaxDataLen} ELSE {<<>>}

PeerSizes == {10, 50, 200}

ContextsOf(ids) ==
    [i \in 1..Len(ids) |->
        [contextID |-> ids[i],
         abstractSyntax |-> IF i = 1 THEN VerificationSOPClass ELSE StorageSOPClass,
         transferSyntax |-> ImplicitVRLittleEndian]]

\* a context manager after a handshake that accepted one or two contexts
NegotiatedCM(size, ids) == [peerMaxPDUSize |-> size, byAbstractSyntax |-> ContextsOf(ids)]

AbstractSyntaxOf(m) ==
    IF m.type \in {"CEchoRq", "CEchoRsp"} THEN VerificationSOPClass ELSE StorageSOPClass

(***************************************************************************)
(* State.                                                                  *)
(*   sm    the state machines, by role                                     *)
(*   env   what the surroundings of a lone machine have done so far        *)
(*   frag  the fragmenter fed into a fresh assembler: the inputs, the PDUs *)
(*         DT-1 produced, and what AddDataPDU returned for each PDU fed.   *)
(***************************************************************************)
VARIABLES sm, env, frag, codec

vars == <<sm, env, frag, codec>>

Roles == {"user", "provider"}

UserParams ==
    [CalledAETitle |-> "AET_B", CallingAETitle |-> "AET_A",
     SOPClasses |-> <<VerificationSOPClass, StorageSOPClass>>,
     TransferSyntaxes |-> <<ImplicitVRLittleEndian>>]

\* the fields of a machine as runStateMachineFor... sets them
NewMachine(isUser) ==
    [isUser |-> isUser, userParams |-> UserParams, contextManager |-> newContextManager,
     netCh |-> <<>>, netChState |-> "open", errorCh |-> <<>>,
     downcallCh |-> <<>>, downcallState |-> "open",
     upcalls |-> <<>>, upcallCloses |-> 0, timer |-> "nil",
     conn |-> IF isUser THEN "nil" ELSE "set", sock |-> IF isUser THEN "none" ELSE "open",
     writesLeft |-> -1, wire |-> <<>>, reader |-> "none",
     currentState |-> 0, commandAssembler |-> EmptyAssembler,
     pc |-> "run", lastState |-> sta01, lastEvent |-> 0, lastAction |-> "nil",
     entered06 |-> 0]

\* the machine when it enters its loop: after AE-1 (requestor) or AE-5 (acceptor)
runStateMachineForServiceUser ==
    LET s == NewMachine(TRUE)
        event == PlainEvent(evt01) IN
    [Callback(findAction(sta01, event), s, event)
        EXCEPT !.lastEvent = evt01, !.lastAction = findAction(sta01, event)]

runStateMachineForServiceProvider ==
    LET s == NewMachine(FALSE)
        event == PlainEvent(evt05) IN
    [Callback(findAction(sta01, event), s, event)
        EXCEPT !.lastEvent = evt05, !.lastAction = findAction(sta01, event)]

StartMachine(r) ==
    IF r = "user" THEN runStateMachineForServiceUser ELSE runStateMachineForServiceProvider

NoFrag == [stage |-> "off"]

NoCodec == [stage |-> "off"]

NoEnv == [netPosted |-> 0, downPosted |-> 0, dialed |-> FALSE]

(***************************************************************************)
(* SpecFrag: DT-1's fragments fed to a fresh assembler.                    *)
(***************************************************************************)
FragInit ==
    /\ sm = <<>>
    /\ env = NoEnv
    /\ codec = NoCodec
    /\ \E m \in Messages : \E d \in PayloadsOf(m) : \E size \in PeerSizes :
        frag = [stage |-> "input", msg |-> m, data |-> d,
                cm |-> NegotiatedCM(size, <<1, 3>>),
                cmdPdus |-> <<>>, dataPdus |-> <<>>, asm |-> EmptyAssembler,
                results |-> <<>>]

\* DT-1 fragments the message
FragSplit ==
    /\ frag.stage = "input"
    /\ LET payload == DimsePayload(AbstractSyntaxOf(frag.msg), frag.msg, frag.data)
           all == dimsePDUs(frag.cm, payload)
           cmd == splitDataIntoPDUs(frag.cm, payload.abstractSyntaxName, TRUE,
                                    EncodeMessage(frag.msg)) IN
       /\ ~all.panic
       /\ frag' = [frag EXCEPT !.stage = "split", !.cmdPdus = cmd.pdus,
                               !.dataPdus = SubSeq(all.pdus, Len(cmd.pdus) + 1, Len(all.pdus))]
    /\ UNCHANGED <<sm, env, codec>>

\* the receiving assembler takes the next PDU
FragFeed ==
    /\ frag.stage = "split"
    /\ Len(frag.results) < Len(frag.cmdPdus) + Len(frag.dataPdus)
    /\ LET pdus == frag.cmdPdus \o frag.dataPdus
           r == AddDataPDU(frag.asm, pdus[Len(frag.results) + 1]) IN
       frag' = [frag EXCEPT !.asm = r.asm,
                            !.results = Append(@, [contextID |-> r.contextID,
                                                   command |-> r.command,
                                                   data |-> r.data, err |-> r.err])]
    /\ UNCHANGED <<sm, env, codec>>

FragNext == FragSplit \/ FragFeed

SpecFrag == FragInit /\ [][FragNext]_vars

(***************************************************************************)
(* Spec: one machine, requestor or acceptor, with its network reader, its  *)
(* ARTIM timer, its transport and its service layer free to do whatever    *)
(* they can do.                                                            *)
(***************************************************************************)
\* the peer's maximum PDU size in the handshake PDUs a lone machine receives
SmallPeerSize == 30

AcceptingAC ==
    AAssociateAC(CurrentProtocolVersion, "AET_B", "AET_A",
                 <<PresentationContextItem(1, VerificationSOPClass,
                                           <<ImplicitVRLittleEndian>>, 0),
                   UserInformationItem(SmallPeerSize)>>)

RejectingAC ==
    AAssociateAC(CurrentProtocolVersion, "AET_B", "AET_A",
                 <<PresentationContextItem(1, VerificationSOPClass, <<>>, 3),
                   UserInformationItem(SmallPeerSize)>>)

GoodRQ(version) ==
    AAssociateRQ(version, "AET_D", "AET_C",
                 <<PresentationContextItem(1, VerificationSOPClass,
                                           <<ImplicitVRLittleEndian>>, 0),
                   UserInformationItem(SmallPeerSize)>>)

EchoRq == CEchoRq(1, CommandDataSetTypeNull)

EchoRsp == CEchoRsp(1, CommandDataSetTypeNull, 0)

PDUsOf(size, msg, data) ==
    dimsePDUs(NegotiatedCM(size, <<1>>), DimsePayload(VerificationSOPClass, msg, data)).pdus

\* P-DATA-TF PDUs a peer may send: a whole C-ECHO-RQ and a whole C-ECHO-RSP
InboundPData ==
    {PDUsOf(200, EchoRq, <<>>)[1], PDUsOf(200, EchoRsp, <<>>)[1]}

NetInputs ==
    {Event(evt03, AcceptingAC, NoPayload), Event(evt03, RejectingAC, NoPayload),
     Event(evt04, AAssociateRj(1, 1, 1), NoPayload),
     Event(evt06, GoodRQ(1), NoPayload), Event(evt06, GoodRQ(2), NoPayload),
     Event(evt12, AReleaseRq, NoPayload), Event(evt13, AReleaseRp, NoPayload),
     Event(evt16, AAbort(0, 0), NoPayload), PlainEvent(evt17), PlainEvent(evt19)}
    \cup {Event(evt10, p, NoPayload) : p \in InboundPData}

\* what the service layer may post once the transport is there
DowncallInputs ==
    {Event(evt09, NoPDU, DimsePayload(VerificationSOPClass, EchoRq, <<>>)),
     Event(evt09, NoPDU, DimsePayload(VerificationSOPClass,
                                      CEchoRq(2, CommandDataSetTypeNonNull),
                                      DataOf(MaxDataLen))),
     PlainEvent(evt11), PlainEvent(evt14), PlainEvent(evt15)}

Init ==
    /\ \E r \in Roles : sm = [m \in {r} |-> StartMachine(r)]
    /\ env = NoEnv
    /\ frag = NoFrag
    /\ codec = NoCodec

Running(m) == m \in DOMAIN sm /\ sm[m].pc = "run"

\* the network reader posts the event of the PDU it read; after EOF (evt17) or a read
\* error (evt19) it closes its channel and exits. The reader is kept at most one
\* event ahead of the machine.
ReaderPost(m) ==
    /\ Running(m)
    /\ sm[m].reader = "running"
    /\ sm[m].netCh = <<>>
    /\ env.netPosted < MaxNetEvents
    /\ \E ev \in NetInputs :
        sm' = [sm EXCEPT ![m].netCh = Append(@, ev),
                         ![m].netChState = IF ev.event \in {evt17, evt19} THEN "closed" ELSE @,
                         ![m].reader = IF ev.event \in {evt17, evt19} THEN "exited" ELSE @]
    /\ env' = [env EXCEPT !.netPosted = @ + 1]
    /\ UNCHANGED <<frag, codec>>

\* the ARTIM timer fires: its tick goes into the channel it was started with
TimerExpire(m) ==
    /\ Running(m)
    /\ sm[m].timer = "armed"
    /\ sm' = [sm EXCEPT ![m].timer = "fired"]
    /\ UNCHANGED <<env, frag, codec>>

\* the requestor's service layer dials: evt02 with the connection, or evt17
ServiceDial(m) ==
    /\ Running(m)
    /\ sm[m].isUser
    /\ ~env.dialed
    /\ \/ sm' = [sm EXCEPT ![m].downcallCh = Append(@, PlainEvent(evt02)),
                           ![m].sock = "open"]
       \/ sm' = [sm EXCEPT ![m].downcallCh = Append(@, PlainEvent(evt17))]
    /\ env' = [env EXCEPT !.dialed = TRUE]
    /\ UNCHANGED <<frag, codec>>

\* the service layer posts a downcall
ServicePost(m) ==
    /\ Running(m)
    /\ sm[m].isUser => env.dialed
    /\ sm[m].downcallState = "open"
    /\ sm[m].downcallCh = <<>>
    /\ env.downPosted < MaxDowncalls
    /\ \E ev \in DowncallInputs : sm' = [sm EXCEPT ![m].downcallCh = Append(@, ev)]
    /\ env' = [env EXCEPT !.downPosted = @ + 1]
    /\ UNCHANGED <<frag, codec>>

\* the transport during one step: healthy (-1), or broken after w more writes
WriteOutcomes == -1..MaxWritesBeforeBreak

\* runOneStep for an event taken from a channel, on a transport that takes w writes;
\* wire holds the PDUs the step wrote
Stepped(s, event, w) ==
    [runOneStep([s EXCEPT !.writesLeft = w, !.wire = <<>>], event) EXCEPT !.writesLeft = -1]

\* getNextEvent receives from netCh
StepNet(m) ==
    /\ Running(m)
    /\ sm[m].netChState # "nil"
    /\ sm[m].netCh # <<>>
    /\ \E w \in WriteOutcomes :
        sm' = [sm EXCEPT ![m] = Stepped([sm[m] EXCEPT !.netCh = Tail(@)], Head(sm[m].netCh), w)]
    /\ UNCHANGED <<env, frag, codec>>

\* getNextEvent finds netCh closed and empty: it sets it to nil and selects again
StepNetClosed(m) ==
    /\ Running(m)
    /\ sm[m].netChState = "closed"
    /\ sm[m].netCh = <<>>
    /\ sm' = [sm EXCEPT ![m].netChState = "nil"]
    /\ UNCHANGED <<env, frag, codec>>

\* getNextEvent receives from errorCh
StepError(m) ==
    /\ Running(m)
    /\ sm[m].errorCh # <<>>
    /\ \E w \in WriteOutcomes :
        sm' = [sm EXCEPT ![m] = Stepped([sm[m] EXCEPT !.errorCh = Tail(@)],
                                       Head(sm[m].errorCh), w)]
    /\ UNCHANGED <<env, frag, codec>>

\* getNextEvent receives the tick from timerCh. Every action run for evt18 starts or
\* stops the timer, which replaces timerCh, or ends the loop: getNextEvent never finds
\* the drained channel closed.
StepTimer(m) ==
    /\ Running(m)
    /\ sm[m].timer = "fired"
    /\ \E w \in WriteOutcomes :
        sm' = [sm EXCEPT ![m] = Stepped([sm[m] EXCEPT !.timer = "drained"],
                                       PlainEvent(evt18), w)]
    /\ UNCHANGED <<env, frag, codec>>

\* getNextEvent receives from downcallCh
StepDowncall(m) ==
    /\ Running(m)
    /\ sm[m].downcallState # "nil"
    /\ sm[m].downcallCh # <<>>
    /\ \E w \in WriteOutcomes :
        sm' = [sm EXCEPT ![m] = Stepped([sm[m] EXCEPT !.downcallCh = Tail(@)],
                                       Head(sm[m].downcallCh), w)]
    /\ UNCHANGED <<env, frag, codec>>

Next ==
    \E m \in Roles :
        \/ ReaderPost(m)
        \/ TimerExpire(m)
        \/ ServiceDial(m)
        \/ ServicePost(m)
        \/ StepNet(m)
        \/ StepNetClosed(m)
        \/ StepError(m)
        \/ StepTimer(m)
        \/ StepDowncall(m)

Spec == Init /\ [][Next]_vars

(***************************************************************************)
(* SpecAssociated: one machine, requestor or acceptor, from the moment its *)
(* handshake has completed (sta06), with its network reader, its ARTIM     *)
(* timer, its transport and its service layer free to do whatever they can *)
(* do. The peer may also send P-DATA-TF PDUs whose PDVs mix context IDs.   *)
(***************************************************************************)
\* the requestor after evt02 (AE-2) and the peer's accepting A-ASSOCIATE-AC (AE-3)
AssociatedUser ==
    Stepped(Stepped([StartMachine("user") EXCEPT !.sock = "open"], PlainEvent(evt02), -1),
            Event(evt03, AcceptingAC, NoPayload), -1)

\* the acceptor after the request (AE-6) and the evt07 it posted to itself (AE-7)
acceptPosted(s) == Stepped([s EXCEPT !.downcallCh = Tail(@)], Head(s.downcallCh), -1)

AssociatedProvider ==
    acceptPosted(Stepped(StartMachine("provider"), Event(evt06, GoodRQ(1), NoPayload), -1))

Associated(r) == IF r = "user" THEN AssociatedUser ELSE AssociatedProvider

\* the command set of a C-ECHO-RQ cut in two
EchoRqHead == Take(EncodeMessage(EchoRq), 20)

EchoRqRest == Drop(EncodeMessage(EchoRq), 20)

\* P-DATA-TF PDUs of a peer: one PDU whose two PDVs carry the context IDs 1 and 3, one
\* whose PDVs carry 0 and 3 (the ID is any byte of the wire); the first half of a
\* command set in context 1
AssociatedPData ==
    {PDataTf(<<PDV(1, TRUE, FALSE, EchoRqHead), PDV(3, TRUE, TRUE, EchoRqRest)>>),
     PDataTf(<<PDV(0, TRUE, FALSE, EchoRqHead), PDV(3, TRUE, TRUE, EchoRqRest)>>),
     PDataTf(<<PDV(1, TRUE, FALSE, EchoRqHead)>>)}

AssociatedNetInputs ==
    {Event(evt12, AReleaseRq, NoPayload), Event(evt13, AReleaseRp, NoPayload),
     PlainEvent(evt17), PlainEvent(evt19)}
    \cup {Event(evt10, p, NoPayload) : p \in AssociatedPData}

AssociatedInit ==
    /\ \E r \in Roles : sm = [m \in {r} |-> Associated(r)]
    /\ env = [NoEnv EXCEPT !.dialed = TRUE]
    /\ frag = NoFrag
    /\ codec = NoCodec

\* the network reader of an associated machine posts the event of the PDU it read
AssociatedReaderPost(m) ==
    /\ Running(m)
    /\ sm[m].reader = "running"
    /\ sm[m].netCh = <<>>
    /\ env.netPosted < MaxNetEvents
    /\ \E ev \in AssociatedNetInputs :
        sm' = [sm EXCEPT ![m].netCh = Append(@, ev),
                         ![m].netChState = IF ev.event \in {evt17, evt19} THEN "closed" ELSE @,
                         ![m].reader = IF ev.event \in {evt17, evt19} THEN "exited" ELSE @]
    /\ env' = [env EXCEPT !.netPosted = @ + 1]
    /\ UNCHANGED <<frag, codec>>

AssociatedNext ==
    \E m \in Roles :
        \/ AssociatedReaderPost(m)
        \/ TimerExpire(m)
        \/ ServicePost(m)
        \/ StepNet(m)
        \/ StepNetClosed(m)
        \/ StepError(m)
        \/ StepTimer(m)
        \/ StepDowncall(m)

SpecAssociated == AssociatedInit /\ [][AssociatedNext]_vars

(***************************************************************************)
(* SpecAssembly: an acceptor in sta06 whose peer sends any sequence of     *)
(* P-DATA-TF PDUs: whole and half command sets, data fragments with and    *)
(* without the last bit, on the command and the data channel in any order. *)
(***************************************************************************)
\* how many P-DATA-TF PDUs the peer sends
MaxPDUs == 3

\* a C-STORE-RQ whose command set is longer than the threshold
StoreRq == CStoreRq(LongUID, 1, 0, CommandDataSetTypeNonNull, LongUID)

AssemblyMessages == {EchoRq, EchoRsp, StoreRq}

CommandHead(m) == Take(EncodeMessage(m), Len(EncodeMessage(m)) \div 2)

CommandRest(m) == Drop(EncodeMessage(m), Len(EncodeMessage(m)) \div 2)

\* the command set of m in one PDV, and cut in two PDVs
CommandPDVs(contextID, m) ==
    {PDV(contextID, TRUE, TRUE, EncodeMessage(m)),
     PDV(contextID, TRUE, FALSE, CommandHead(m)),
     PDV(contextID, TRUE, TRUE, CommandRest(m))}

DataPDVs(contextID) ==
    {PDV(contextID, FALSE, FALSE, DataOf(1)), PDV(contextID, FALSE, TRUE, DataOf(2))}

\* the PDVs that also come two in one PDU
PairedPDVs ==
    DataPDVs(1) \cup {PDV(1, TRUE, TRUE, EncodeMessage(m)) : m \in {EchoRq, StoreRq}}

AssemblyPDVs ==
    UNION {CommandPDVs(1, m) : m \in AssemblyMessages}
    \cup DataPDVs(1) \cup {PDV(3, TRUE, TRUE, EncodeMessage(EchoRq))}

AssemblyPDUs ==
    {PDataTf(<<v>>) : v \in AssemblyPDVs}
    \cup {PDataTf(<<v, w>>) : v \in PairedPDVs, w \in PairedPDVs}

AssemblyInit ==
    /\ sm = [m \in {"provider"} |-> AssociatedProvider]
    /\ env = NoEnv
    /\ frag = NoFrag
    /\ codec = NoCodec

\* the network reader posts evt10 with the P-DATA-TF it read while the association is up
AssemblyReaderPost(m) ==
    /\ Running(m)
    /\ sm[m].reader = "running"
    /\ sm[m].currentState = sta06
    /\ sm[m].netCh = <<>>
    /\ env.netPosted < MaxPDUs
    /\ \E p \in AssemblyPDUs : sm' = [sm EXCEPT ![m].netCh = Append(@, Event(evt10, p, NoPayload))]
    /\ env' = [env EXCEPT !.netPosted = @ + 1]
    /\ UNCHANGED <<frag, codec>>

AssemblyNext == \E m \in Roles : AssemblyReaderPost(m) \/ StepNet(m)

SpecAssembly == AssemblyInit /\ [][AssemblyNext]_vars

(***************************************************************************)
(* SpecTimed: an associated machine whose peer and service layer misbehave *)
(* or abort, under the scheduling the runtime gives: a started timer fires *)
(* after its 10 seconds, and a select that has the tick ready takes it     *)
(* sooner or later.                                                        *)
(***************************************************************************)
\* what the peer sends: half a command set, EOF, bytes that are no PDU
TimedNetInputs ==
    {Event(evt10, PDataTf(<<PDV(1, TRUE, FALSE, EchoRqHead)>>), NoPayload),
     PlainEvent(evt17), PlainEvent(evt19)}

\* what the service layer posts: a C-ECHO-RQ to send, an abort
TimedDowncallInputs ==
    {Event(evt09, NoPDU, DimsePayload(VerificationSOPClass, EchoRq, <<>>)), PlainEvent(evt15)}

TimedReaderPost(m) ==
    /\ Running(m)
    /\ sm[m].reader = "running"
    /\ sm[m].netCh = <<>>
    /\ env.netPosted < MaxNetEvents
    /\ \E ev \in TimedNetInputs :
        sm' = [sm EXCEPT ![m].netCh = Append(@, ev),
                         ![m].netChState = IF ev.event \in {evt17, evt19} THEN "closed" ELSE @,
                         ![m].reader = IF ev.event \in {evt17, evt19} THEN "exited" ELSE @]
    /\ env' = [env EXCEPT !.netPosted = @ + 1]
    /\ UNCHANGED <<frag, codec>>

TimedServicePost(m) ==
    /\ Running(m)
    /\ sm[m].downcallState = "open"
    /\ sm[m].downcallCh = <<>>
    /\ env.downPosted < MaxDowncalls
    /\ \E ev \in TimedDowncallInputs : sm' = [sm EXCEPT ![m].downcallCh = Append(@, ev)]
    /\ env' = [env EXCEPT !.downPosted = @ + 1]
    /\ UNCHANGED <<frag, codec>>

TimedNext ==
    \E m \in Roles :
        \/ TimedReaderPost(m)
        \/ TimerExpire(m)
        \/ TimedServicePost(m)
        \/ StepNet(m)
        \/ StepNetClosed(m)
        \/ StepError(m)
        \/ StepTimer(m)
        \/ StepDowncall(m)

SpecTimed ==
    /\ AssociatedInit
    /\ [][TimedNext]_vars
    /\ WF_vars(\E m \in Roles : TimerExpire(m))
    /\ WF_vars(\E m \in Roles : StepTimer(m))

(***************************************************************************)
(* SpecClosing: one machine, new or associated, whose service layer may    *)
(* close the downcall channel at any time.                                 *)
(***************************************************************************)
ClosingNetInputs ==
    {Event(evt06, GoodRQ(1), NoPayload), Event(evt12, AReleaseRq, NoPayload),
     Event(evt13, AReleaseRp, NoPayload), PlainEvent(evt17), PlainEvent(evt19)}

ClosingInit ==
    /\ \E r \in Roles : \E s \in {StartMachine(r), Associated(r)} : sm = [m \in {r} |-> s]
    /\ env = NoEnv
    /\ frag = NoFrag
    /\ codec = NoCodec

ClosingReaderPost(m) ==
    /\ Running(m)
    /\ sm[m].reader = "running"
    /\ sm[m].netCh = <<>>
    /\ env.netPosted < MaxNetEvents
    /\ \E ev \in ClosingNetInputs :
        sm' = [sm EXCEPT ![m].netCh = Append(@, ev),
                         ![m].netChState = IF ev.event \in {evt17, evt19} THEN "closed" ELSE @,
                         ![m].reader = IF ev.event \in {evt17, evt19} THEN "exited" ELSE @]
    /\ env' = [env EXCEPT !.netPosted = @ + 1]
    /\ UNCHANGED <<frag, codec>>

\* the service layer closes the downcall channel; what it posted before stays queued
ServiceClose(m) ==
    /\ Running(m)
    /\ sm[m].downcallState = "open"
    /\ sm' = [sm EXCEPT ![m].downcallState = "closed"]
    /\ UNCHANGED <<env, frag, codec>>

\* getNextEvent finds downcallCh closed and empty: it sets it to nil and selects again
StepDowncallClosed(m) ==
    /\ Running(m)
    /\ sm[m].downcallState = "closed"
    /\ sm[m].downcallCh = <<>>
    /\ sm' = [sm EXCEPT ![m].downcallState = "nil"]
    /\ UNCHANGED <<env, frag, codec>>

ClosingNext ==
    \E m \in Roles :
        \/ ClosingReaderPost(m)
        \/ TimerExpire(m)
        \/ ServiceDial(m)
        \/ ServicePost(m)
        \/ ServiceClose(m)
        \/ StepNet(m)
        \/ StepNetClosed(m)
        \/ StepError(m)
        \/ StepTimer(m)
        \/ StepDowncall(m)
        \/ StepDowncallClosed(m)

SpecClosing == ClosingInit /\ [][ClosingNext]_vars

(***************************************************************************)
(* SpecAcceptor: an acceptor and the A-ASSOCIATE-RQs of its peer: requests *)
(* it can accept, with a maximum PDU length that is usual, 8 or 0, and     *)
(* requests whose negotiation fails.                                       *)
(***************************************************************************)
RequestWith(items) == AAssociateRQ(CurrentProtocolVersion, "AET_D", "AET_C", items)

\* a request with one acceptable context and the maximum length given
RequestOfLength(maximumLength) ==
    RequestWith(<<PresentationContextItem(1, VerificationSOPClass,
                                          <<ImplicitVRLittleEndian>>, 0),
                  UserInformationItem(maximumLength)>>)

AcceptableRequests == {RequestOfLength(n) : n \in {SmallPeerSize, ChunkOverhead, 0}}

\* requests without user information, with an abstract syntax and with a transfer
\* syntax the acceptor does not know
FailingRequests ==
    {RequestWith(<<PresentationContextItem(1, VerificationSOPClass,
                                           <<ImplicitVRLittleEndian>>, 0)>>),
     RequestWith(<<PresentationContextItem(1, "1.2.3", <<ImplicitVRLittleEndian>>, 0),
                   UserInformationItem(SmallPeerSize)>>),
     RequestWith(<<PresentationContextItem(1, VerificationSOPClass, <<"1.2.840.10008.1.2.4.50">>, 0),
                   UserInformationItem(SmallPeerSize)>>)}

AcceptorNetInputs ==
    {Event(evt06, rq, NoPayload) : rq \in AcceptableRequests \cup FailingRequests}
    \cup {PlainEvent(evt17), PlainEvent(evt19)}

AcceptorInit ==
    /\ sm = [m \in {"provider"} |-> StartMachine("provider")]
    /\ env = NoEnv
    /\ frag = NoFrag
    /\ codec = NoCodec

AcceptorReaderPost(m) ==
    /\ Running(m)
    /\ sm[m].reader = "running"
    /\ sm[m].netCh = <<>>
    /\ env.netPosted < MaxNetEvents
    /\ \E ev \in AcceptorNetInputs :
        sm' = [sm EXCEPT ![m].netCh = Append(@, ev),
                         ![m].netChState = IF ev.event \in {evt17, evt19} THEN "closed" ELSE @,
                         ![m].reader = IF ev.event \in {evt17, evt19} THEN "exited" ELSE @]
    /\ env' = [env EXCEPT !.netPosted = @ + 1]
    /\ UNCHANGED <<frag, codec>>

\* the service layer sends a C-ECHO-RQ once the handshake is complete
AcceptorServicePost(m) ==
    /\ Running(m)
    /\ \E i \in 1..Len(sm[m].upcalls) : sm[m].upcalls[i] = HandshakeCompleted
    /\ sm[m].downcallCh = <<>>
    /\ env.downPosted < MaxDowncalls
    /\ sm' = [sm EXCEPT ![m].downcallCh =
                   Append(@, Event(evt09, NoPDU,
                                   DimsePayload(VerificationSOPClass, EchoRq, <<>>)))]
    /\ env' = [env EXCEPT !.downPosted = @ + 1]
    /\ UNCHANGED <<frag, codec>>

AcceptorNext ==
    \E m \in Roles :
        \/ AcceptorReaderPost(m)
        \/ TimerExpire(m)
        \/ AcceptorServicePost(m)
        \/ StepNet(m)
        \/ StepNetClosed(m)
        \/ StepError(m)
        \/ StepTimer(m)
        \/ StepDowncall(m)

SpecAcceptor == AcceptorInit /\ [][AcceptorNext]_vars

(***************************************************************************)
(* SpecBulk: an acceptor in sta06 whose peer announced a maximum PDU       *)
(* length that makes DT-1 cut a message into one fragment per byte, on a   *)
(* transport that may break during the step. A failed write posts evt17 on *)
(* the error channel, which only the machine itself receives from.         *)
(***************************************************************************)
\* a UID of 40 characters: the command set of a C-STORE-RQ with it is longer than the
\* error channel's capacity
BulkUID == Ones(40)

BulkStoreRq == CStoreRq(BulkUID, 1, 0, CommandDataSetTypeNonNull, BulkUID)

\* a request that offers verification and storage, with the maximum length given
BulkRequest(maximumLength) ==
    RequestWith(<<PresentationContextItem(1, VerificationSOPClass,
                                          <<ImplicitVRLittleEndian>>, 0),
                  PresentationContextItem(3, StorageSOPClass,
                                          <<ImplicitVRLittleEndian>>, 0),
                  UserInformationItem(maximumLength)>>)

\* maximum lengths that leave room for 1 byte per fragment, and for some more
BulkPeerSizes == {ChunkOverhead + 1, SmallPeerSize}

\* the acceptor after that request (AE-6) and the evt07 it posted to itself (AE-7)
BulkProvider(maximumLength) ==
    acceptPosted(Stepped(StartMachine("provider"),
                         Event(evt06, BulkRequest(maximumLength), NoPayload), -1))

BulkPayloads ==
    {DimsePayload(VerificationSOPClass, EchoRq, <<>>)}
    \cup {DimsePayload(StorageSOPClass, m, DataOf(n)) :
             m \in {StoreRq, BulkStoreRq}, n \in 1..MaxDataLen}

BulkInit ==
    /\ \E size \in BulkPeerSizes : sm = [m \in {"provider"} |-> BulkProvider(size)]
    /\ env = NoEnv
    /\ frag = NoFrag
    /\ codec = NoCodec

\* the service layer sends a message
BulkServicePost(m) ==
    /\ Running(m)
    /\ sm[m].downcallCh = <<>>
    /\ env.downPosted < MaxDowncalls
    /\ \E payload \in BulkPayloads :
          sm' = [sm EXCEPT ![m].downcallCh = Append(@, Event(evt09, NoPDU, payload))]
    /\ env' = [env EXCEPT !.downPosted = @ + 1]
    /\ UNCHANGED <<frag, codec>>

BulkNext == \E m \in Roles : BulkServicePost(m) \/ StepDowncall(m) \/ StepError(m)

SpecBulk == BulkInit /\ [][BulkNext]_vars

(***************************************************************************)
(* SpecRelease: an acceptor in sta06 whose peer asks for the release of    *)
(* the association (evt12) while the service layer goes on sending. The    *)
(* machine posts the A-RELEASE response (evt14) on its own downcall        *)
(* channel, behind the P-DATA requests that are queued there.              *)
(*   env.released   the reader has posted evt12                            *)
(*   env.sent       the PDUs written so far, each with the action that     *)
(*                  wrote it                                               *)
(***************************************************************************)
ReleaseInit ==
    /\ sm = [m \in {"provider"} |-> AssociatedProvider]
    /\ env = [downPosted |-> 0, released |-> FALSE, sent |-> <<>>]
    /\ frag = NoFrag
    /\ codec = NoCodec

\* the service layer queues a C-ECHO-RQ, whatever the channel holds
ReleaseServicePost(m) ==
    /\ Running(m)
    /\ env.downPosted < MaxDowncalls
    /\ sm' = [sm EXCEPT ![m].downcallCh =
                   Append(@, Event(evt09, NoPDU,
                                   DimsePayload(VerificationSOPClass, EchoRq, <<>>)))]
    /\ env' = [env EXCEPT !.downPosted = @ + 1]
    /\ UNCHANGED <<frag, codec>>

\* the reader reads the peer's A-RELEASE-RQ, and an EOF after it; every step for that
\* evt17 ends the loop, which never finds the closed channel empty
ReleaseReaderPost(m) ==
    /\ m \in DOMAIN sm
    /\ sm[m].reader = "running"
    /\ IF env.released
       THEN sm' = [sm EXCEPT ![m].netCh = Append(@, PlainEvent(evt17)),
                             ![m].netChState = "closed", ![m].reader = "exited"]
       ELSE sm' = [sm EXCEPT ![m].netCh = Append(@, Event(evt12, AReleaseRq, NoPayload))]
    /\ env' = [env EXCEPT !.released = TRUE]
    /\ UNCHANGED <<frag, codec>>

\* the PDUs of a step, with the action of the step
SentBy(s) == [i \in 1..Len(s.wire) |-> [action |-> s.lastAction, type |-> s.wire[i].type]]

\* the machine after the step for the event, and the PDUs it wrote
ReleaseStepped(m, s, event) ==
    /\ \E w \in WriteOutcomes : sm' = [sm EXCEPT ![m] = Stepped(s, event, w)]
    /\ env' = [env EXCEPT !.sent = @ \o SentBy(sm'[m])]
    /\ UNCHANGED <<frag, codec>>

\* getNextEvent receives from netCh
ReleaseStepNet(m) ==
    /\ Running(m)
    /\ sm[m].netChState # "nil"
    /\ sm[m].netCh # <<>>
    /\ ReleaseStepped(m, [sm[m] EXCEPT !.netCh = Tail(@)], Head(sm[m].netCh))

\* getNextEvent receives from errorCh
ReleaseStepError(m) ==
    /\ Running(m)
    /\ sm[m].errorCh # <<>>
    /\ ReleaseStepped(m, [sm[m] EXCEPT !.errorCh = Tail(@)], Head(sm[m].errorCh))

\* getNextEvent receives the tick from timerCh
ReleaseStepTimer(m) ==
    /\ Running(m)
    /\ sm[m].timer = "fired"
    /\ ReleaseStepped(m, [sm[m] EXCEPT !.timer = "drained"], PlainEvent(evt18))

\* getNextEvent receives from downcallCh
ReleaseStepDowncall(m) ==
    /\ Running(m)
    /\ sm[m].downcallState # "nil"
    /\ sm[m].downcallCh # <<>>
    /\ ReleaseStepped(m, [sm[m] EXCEPT !.downcallCh = Tail(@)], Head(sm[m].downcallCh))

ReleaseNext ==
    \E m \in Roles :
        \/ ReleaseServicePost(m)
        \/ ReleaseReaderPost(m)
        \/ TimerExpire(m)
        \/ ReleaseStepNet(m)
        \/ ReleaseStepError(m)
        \/ ReleaseStepTimer(m)
        \/ ReleaseStepDowncall(m)

SpecRelease == ReleaseInit /\ [][ReleaseNext]_vars

(***************************************************************************)
(* SpecArtim: the channels of the ARTIM timer. Every startTimer makes a    *)
(* channel of capacity 1 and a timer that, when it fires, sends evt18 on   *)
(* that channel and closes it; stopTimer makes a channel nothing is sent   *)
(* on; timerCh refers to the channel made last. getNextEvent receives from *)
(* the channel timerCh refers to.                                          *)
(*   env.channels   the channels made so far: "pending" (its timer has not *)
(*                  fired), "tick" (evt18 is in it, and it is closed),     *)
(*                  "closed" (closed and empty), "inert" (made by          *)
(*                  stopTimer)                                             *)
(*   env.timerCh    the index of the channel timerCh refers to; 0 for nil  *)
(*   env.cancelled  the channels timerCh referred to when stopTimer or a   *)
(*                  further startTimer was called                          *)
(*   env.delivered  the channels getNextEvent received evt18 from          *)
(***************************************************************************)
MaxTimerCalls == 3

NoTimers == [channels |-> <<>>, timerCh |-> 0, cancelled |-> {}, delivered |-> <<>>]

\* sm.timerCh = ch, for the new channel ch of the kind given
timerChReplaced(t, kind) ==
    [t EXCEPT !.channels = Append(@, kind),
              !.timerCh = Len(t.channels) + 1,
              !.cancelled = IF t.timerCh = 0 THEN @ ELSE @ \cup {t.timerCh}]

timerStarted(t) == timerChReplaced(t, "pending")

timerRestarted(t) == timerStarted(t)

\* stopTimer leaving timerCh as it is
timerStoppedKeepingChannel(t) ==
    [t EXCEPT !.cancelled = IF t.timerCh = 0 THEN @ ELSE @ \cup {t.timerCh}]

timerStopped(t) == timerChReplaced(t, "inert")

\* the function AfterFunc runs: the send never blocks, the channel has room for it
timerFired(t, ch) == [t EXCEPT !.channels[ch] = "tick"]

\* the receive of getNextEvent from timerCh: evt18, or the closure of the channel,
\* after which timerCh is nil
timerReceived(t) ==
    IF t.channels[t.timerCh] = "tick"
    THEN [t EXCEPT !.channels[t.timerCh] = "closed", !.delivered = Append(@, t.timerCh)]
    ELSE [t EXCEPT !.timerCh = 0]

ArtimInit ==
    /\ sm = <<>>
    /\ env = NoTimers
    /\ frag = NoFrag
    /\ codec = NoCodec

ArtimCalls == Len(env.channels) < MaxTimerCalls

\* the machine calls startTimer while timerCh is nil
ArtimStart ==
    /\ ArtimCalls
    /\ env.timerCh = 0
    /\ env' = timerStarted(env)
    /\ UNCHANGED <<sm, frag, codec>>

\* the machine calls restartTimer, or startTimer again
ArtimRestart ==
    /\ ArtimCalls
    /\ env.timerCh # 0
    /\ env' = timerRestarted(env)
    /\ UNCHANGED <<sm, frag, codec>>

ArtimStop ==
    /\ ArtimCalls
    /\ env' = timerStopped(env)
    /\ UNCHANGED <<sm, frag, codec>>

\* a timer fires, whether timerCh still refers to its channel or not
ArtimFire ==
    /\ \E ch \in 1..Len(env.channels) :
          env.channels[ch] = "pending" /\ env' = timerFired(env, ch)
    /\ UNCHANGED <<sm, frag, codec>>

\* the select of getNextEvent takes the timerCh case
ArtimReceive ==
    /\ env.timerCh # 0
    /\ env.channels[env.timerCh] \in {"tick", "closed"}
    /\ env' = timerReceived(env)
    /\ UNCHANGED <<sm, frag, codec>>

ArtimNext == ArtimStart \/ ArtimRestart \/ ArtimStop \/ ArtimFire \/ ArtimReceive

SpecArtim == ArtimInit /\ [][ArtimNext]_vars

(***************************************************************************)
(* SpecPair: a requestor and an acceptor over one connection. Each         *)
(* machine's network reader reads what the other machine wrote. The        *)
(* service layers run one exchange: the requestor sends a request once the *)
(* handshake is complete and asks for the release once the response is     *)
(* indicated; the acceptor answers the request that is indicated to it.    *)
(*   env.scenario  "echo": C-ECHO-RQ / C-ECHO-RSP; "store": a C-STORE-RQ   *)
(*                 with data / C-STORE-RSP                                 *)
(*   env.link      the PDUs written towards each machine and not yet read  *)
(*   env.sent      every PDU each machine wrote                            *)
(*   env.served    how many upcalls each service layer has taken           *)
(*   env.expired   whether an ARTIM timer has expired                      *)
(***************************************************************************)
Scenarios == {"echo", "store"}

Peer(m) == IF m = "user" THEN "provider" ELSE "user"

RequestOf(scenario) ==
    IF scenario = "echo" THEN DimsePayload(VerificationSOPClass, EchoRq, <<>>)
    ELSE DimsePayload(StorageSOPClass,
                      CStoreRq(LongUID, 1, 0, CommandDataSetTypeNonNull, LongUID),
                      DataOf(MaxDataLen))

ResponseOf(scenario) ==
    IF scenario = "echo" THEN DimsePayload(VerificationSOPClass, EchoRsp, <<>>)
    ELSE DimsePayload(StorageSOPClass,
                      CStoreRsp(LongUID, 1, CommandDataSetTypeNull, LongUID, 0), <<>>)

\* the reader's mapping with the events of A-ASSOCIATE-AC and A-ASSOCIATE-RJ exchanged
eventOfPDUExchanged(pdu) ==
    CASE pdu.type = "A-ASSOCIATE-RQ" -> evt06
      [] pdu.type = "A-ASSOCIATE-AC" -> evt04
      [] pdu.type = "A-ASSOCIATE-RJ" -> evt03
      [] pdu.type = "P-DATA-TF" -> evt10
      [] pdu.type = "A-RELEASE-RQ" -> evt12
      [] pdu.type = "A-RELEASE-RP" -> evt13
      [] pdu.type = "A-ABORT" -> evt16
      [] OTHER -> evt19

\* the event the network reader posts for a PDU it read
eventOfPDU(pdu) ==
    CASE pdu.type = "A-ASSOCIATE-RQ" -> evt06
      [] pdu.type = "A-ASSOCIATE-AC" -> evt03
      [] pdu.type = "A-ASSOCIATE-RJ" -> evt04
      [] pdu.type = "P-DATA-TF" -> evt10
      [] pdu.type = "A-RELEASE-RQ" -> evt12
      [] pdu.type = "A-RELEASE-RP" -> evt13
      [] pdu.type = "A-ABORT" -> evt16
      [] OTHER -> evt19

PairInit ==
    /\ sm = [m \in {"user"} |-> StartMachine("user")]
    /\ \E scenario \in Scenarios :
          env = [scenario |-> scenario, link |-> [m \in Roles |-> <<>>],
                 sent |-> [m \in Roles |-> <<>>], served |-> [m \in Roles |-> 0],
                 expired |-> FALSE]
    /\ frag = NoFrag
    /\ codec = NoCodec

\* the requestor's service layer dials and the listener accepts: the requestor gets
\* evt02 with the connection, the acceptor's machine starts with evt05
PairDial ==
    /\ DOMAIN sm = {"user"}
    /\ Running("user")
    /\ sm' = [m \in Roles |->
                 IF m = "user"
                 THEN [sm[m] EXCEPT !.downcallCh = Append(@, PlainEvent(evt02)), !.sock = "open"]
                 ELSE StartMachine("provider")]
    /\ UNCHANGED <<env, frag, codec>>

\* the network reader of m reads the next PDU the peer wrote, or the end of the stream
\* once the peer has closed its socket
PairRead(m) ==
    /\ Running(m)
    /\ sm[m].reader = "running"
    /\ \/ /\ env.link[m] # <<>>
          /\ sm' = [sm EXCEPT ![m].netCh =
                        Append(@, Event(eventOfPDU(Head(env.link[m])), Head(env.link[m]),
                                        NoPayload))]
          /\ env' = [env EXCEPT !.link[m] = Tail(@)]
       \/ /\ env.link[m] = <<>>
          /\ Peer(m) \in DOMAIN sm
          /\ sm[Peer(m)].sock = "closed"
          /\ sm' = [sm EXCEPT ![m].netCh = Append(@, PlainEvent(evt17)),
                              ![m].netChState = "closed", ![m].reader = "exited"]
          /\ UNCHANGED env
    /\ UNCHANGED <<frag, codec>>

PairTimerExpire(m) ==
    /\ Running(m)
    /\ sm[m].timer = "armed"
    /\ sm' = [sm EXCEPT ![m].timer = "fired"]
    /\ env' = [env EXCEPT !.expired = TRUE]
    /\ UNCHANGED <<frag, codec>>

\* the service layer of m takes its next upcall and posts what the exchange asks for
PairService(m) ==
    /\ Running(m)
    /\ env.served[m] < Len(sm[m].upcalls)
    /\ sm[m].downcallState = "open"
    /\ \E u \in {sm[m].upcalls[env.served[m] + 1]} :
          sm' = [sm EXCEPT ![m].downcallCh =
                    @ \o (IF m = "user"
                          THEN IF u.eventType = "HandshakeCompleted"
                               THEN <<Event(evt09, NoPDU, RequestOf(env.scenario))>>
                               ELSE <<PlainEvent(evt11)>>
                          ELSE IF u.eventType = "Data"
                               THEN <<Event(evt09, NoPDU, ResponseOf(env.scenario))>>
                               ELSE <<>>)]
    /\ env' = [env EXCEPT !.served[m] = @ + 1]
    /\ UNCHANGED <<frag, codec>>

\* a write to a socket the peer has closed may still succeed
PairWriteOutcomes(m) ==
    IF Peer(m) \in DOMAIN sm /\ sm[Peer(m)].sock = "closed" THEN {-1, 0} ELSE {-1}

\* runOneStep of m for an event taken from a channel; what it wrote is on its way to
\* the peer
PairStepped(m, s, event) ==
    /\ \E w \in PairWriteOutcomes(m) : sm' = [sm EXCEPT ![m] = Stepped(s, event, w)]
    /\ env' = [env EXCEPT !.link[Peer(m)] = @ \o sm'[m].wire, !.sent[m] = @ \o sm'[m].wire]
    /\ UNCHANGED <<frag, codec>>

PairStepNet(m) ==
    /\ Running(m)
    /\ sm[m].netChState # "nil"
    /\ sm[m].netCh # <<>>
    /\ PairStepped(m, [sm[m] EXCEPT !.netCh = Tail(@)], Head(sm[m].netCh))

PairStepError(m) ==
    /\ Running(m)
    /\ sm[m].errorCh # <<>>
    /\ PairStepped(m, [sm[m] EXCEPT !.errorCh = Tail(@)], Head(sm[m].errorCh))

PairStepTimer(m) ==
    /\ Running(m)
    /\ sm[m].timer = "fired"
    /\ PairStepped(m, [sm[m] EXCEPT !.timer = "drained"], PlainEvent(evt18))

PairStepDowncall(m) ==
    /\ Running(m)
    /\ sm[m].downcallState # "nil"
    /\ sm[m].downcallCh # <<>>
    /\ PairStepped(m, [sm[m] EXCEPT !.downcallCh = Tail(@)], Head(sm[m].downcallCh))

PairNext ==
    \/ PairDial
    \/ \E m \in Roles :
        \/ PairRead(m)
        \/ PairTimerExpire(m)
        \/ PairService(m)
        \/ PairStepNet(m)
        \/ PairStepError(m)
        \/ PairStepTimer(m)
        \/ PairStepDowncall(m)

SpecPair == PairInit /\ [][PairNext]_vars

(***************************************************************************)
(* SpecCodec: AAssociateRQ.Write and AAssociateRQ.Read on the wire bytes.  *)
(* AE titles are sequences of character codes (32 is the ASCII space).     *)
(***************************************************************************)
MaxItems == 2

MaxItemPayload == 1

AETitleLength == 16

BE16(v) == <<(v \div 256) % 256, v % 256>>

UBE16(b) == 256 * b[1] + b[2]

Zeros(n) == [i \in 1..n |-> 0]

\* n ASCII spaces
Spaces(n) == [i \in 1..n |-> 32]

\* pads an AE title with spaces to 16 bytes
fillString(v) ==
    IF Len(v) >= AETitleLength THEN v ELSE v \o Spaces(AETitleLength - Len(v))

\* a sub-item on the wire: type(u8) reserved(u8) length(u16 big-endian) payload
SubItem(type, payload) == [Type |-> type, Payload |-> payload]

SubItemWrite(item) == <<item.Type, 0>> \o BE16(Len(item.Payload)) \o item.Payload

RECURSIVE WriteItems(_)
WriteItems(items) ==
    IF items = <<>> THEN <<>> ELSE SubItemWrite(Head(items)) \o WriteItems(Tail(items))

\* decodes the sub-item at the head of the bytes; fails when the header or the
\* payload is cut short
DecodeSubItem(b) ==
    IF Len(b) < 4 \/ Len(b) < 4 + UBE16(SubSeq(b, 3, 4))
    THEN [err |-> TRUE, item |-> SubItem(0, <<>>), rest |-> <<>>]
    ELSE [err |-> FALSE,
          item |-> SubItem(b[1], SubSeq(b, 5, 4 + UBE16(SubSeq(b, 3, 4)))),
          rest |-> Drop(b, 4 + UBE16(SubSeq(b, 3, 4)))]

\* the item loop of Read: it stops at the end of the bytes and, silently, at the
\* first item that fails to decode
RECURSIVE ReadItems(_)
ReadItems(b) ==
    IF b = <<>> \/ DecodeSubItem(b).err THEN <<>>
    ELSE <<DecodeSubItem(b).item>> \o ReadItems(DecodeSubItem(b).rest)

\* ReadString(n): the next n bytes as they are
ReadString(b, n) == [err |-> Len(b) < n, value |-> Take(b, n)]

\* Write without the two reserved bytes after the protocol version
AAssociateRQWriteNoReserved(pdu) ==
    IF pdu.CalledAETitle = <<>> \/ pdu.CallingAETitle = <<>>
    THEN [bytes |-> <<>>, err |-> TRUE]
    ELSE [bytes |-> BE16(pdu.ProtocolVersion)
                    \o fillString(pdu.CalledAETitle) \o fillString(pdu.CallingAETitle)
                    \o Zeros(8 * 4) \o WriteItems(pdu.Items),
          err |-> FALSE]

AAssociateRQWrite(pdu) ==
    IF pdu.CalledAETitle = <<>> \/ pdu.CallingAETitle = <<>>
    THEN [bytes |-> <<>>, err |-> TRUE]
    ELSE [bytes |-> BE16(pdu.ProtocolVersion) \o Zeros(2)
                    \o fillString(pdu.CalledAETitle) \o fillString(pdu.CallingAETitle)
                    \o Zeros(8 * 4) \o WriteItems(pdu.Items),
          err |-> FALSE]

AAssociateRQRead(d) ==
    IF Len(d) < 2 THEN [pdu |-> NoPDU, err |-> TRUE]
    ELSE IF ReadString(Drop(d, 4), AETitleLength).err THEN [pdu |-> NoPDU, err |-> TRUE]
    ELSE IF ReadString(Drop(d, 4 + AETitleLength), AETitleLength).err
         THEN [pdu |-> NoPDU, err |-> TRUE]
    ELSE LET called == ReadString(Drop(d, 4), AETitleLength).value
             calling == ReadString(Drop(d, 4 + AETitleLength), AETitleLength).value IN
         [pdu |-> AAssociateRQ(UBE16(d), called, calling,
                               ReadItems(Drop(d, 4 + 2 * AETitleLength + 8 * 4))),
          err |-> called = <<>> \/ calling = <<>>]

\* an AE title without its trailing spaces
RECURSIVE TrimRightSpace(_)
TrimRightSpace(v) ==
    IF v # <<>> /\ v[Len(v)] = 32 THEN TrimRightSpace(Take(v, Len(v) - 1)) ELSE v

AETitles == {<<>>, <<65>>, <<65, 32, 66, 32>>, [i \in 1..AETitleLength |-> 88]}

ProtocolVersions == {CurrentProtocolVersion, 513}

SubItems == {SubItem(t, DataOf(n)) : t \in {16, 80}, n \in 0..MaxItemPayload}

RECURSIVE SeqsUpTo(_, _)
SeqsUpTo(S, n) ==
    IF n = 0 THEN {<<>>}
    ELSE SeqsUpTo(S, n - 1)
         \cup {Append(q, x) : q \in {p \in SeqsUpTo(S, n - 1) : Len(p) = n - 1}, x \in S}

CodecInit ==
    /\ sm = <<>>
    /\ env = NoEnv
    /\ frag = NoFrag
    /\ \E v \in ProtocolVersions : \E called \in AETitles : \E calling \in AETitles :
       \E items \in SeqsUpTo(SubItems, MaxItems) :
        codec = [stage |-> "input", pdu |-> AAssociateRQ(v, called, calling, items),
                 written |-> [bytes |-> <<>>, err |-> FALSE], peer |-> FALSE,
                 read |-> [pdu |-> NoPDU, err |-> FALSE]]

\* this codec encodes the PDU
CodecWrite ==
    /\ codec.stage = "input"
    /\ codec' = [codec EXCEPT !.stage = "written", !.written = AAssociateRQWrite(codec.pdu)]
    /\ UNCHANGED <<sm, env, frag>>

\* a peer's encoder lays the PDU out, whatever its AE titles are
PeerWrite ==
    /\ codec.stage = "input"
    /\ codec' = [codec EXCEPT
                    !.stage = "written", !.peer = TRUE,
                    !.written = [bytes |-> BE16(codec.pdu.ProtocolVersion) \o Zeros(2)
                                           \o fillString(codec.pdu.CalledAETitle)
                                           \o fillString(codec.pdu.CallingAETitle)
                                           \o Zeros(8 * 4) \o WriteItems(codec.pdu.Items),
                                 err |-> FALSE]]
    /\ UNCHANGED <<sm, env, frag>>

\* a peer's bytes arrive with the last sub-item cut short by one byte
PeerWriteCut ==
    /\ codec.stage = "input"
    /\ codec.pdu.Items # <<>>
    /\ LET bytes == BE16(codec.pdu.ProtocolVersion) \o Zeros(2)
                    \o fillString(codec.pdu.CalledAETitle)
                    \o fillString(codec.pdu.CallingAETitle)
                    \o Zeros(8 * 4) \o WriteItems(codec.pdu.Items) IN
       codec' = [codec EXCEPT !.stage = "written", !.peer = TRUE,
                              !.written = [bytes |-> Take(bytes, Len(bytes) - 1),
                                           err |-> FALSE]]
    /\ UNCHANGED <<sm, env, frag>>

\* this codec decodes the bytes on the wire
CodecRead ==
    /\ codec.stage = "written"
    /\ ~codec.written.err
    /\ codec' = [codec EXCEPT !.stage = "read", !.read = AAssociateRQRead(codec.written.bytes)]
    /\ UNCHANGED <<sm, env, frag>>

CodecNext == CodecWrite \/ PeerWrite \/ PeerWriteCut \/ CodecRead

SpecCodec == CodecInit /\ [][CodecNext]_vars

(***************************************************************************)
(* SpecReader: an acceptor whose network reader runs ahead of the machine. *)
(* The peer's PDUs arrive as a stream; the reader posts an event for each  *)
(* on netCh and, at a read error, a last one; the machine takes the events *)
(* while its timer, its error channel and its own downcalls interleave.    *)
(*   env.stream      the PDUs that have not arrived yet                    *)
(*   env.arrived     the PDUs the reader has read, in arrival order        *)
(*   env.posted      the events the reader has posted                      *)
(*   env.dispatched  the events the machine has received from netCh        *)
(*   env.failed      whether the reader has met a read error               *)
(***************************************************************************)
\* how many PDUs arrive
MaxStream == 2

NetChCapacity == 128

StreamPDUs ==
    {GoodRQ(1), AcceptingAC, AAssociateRj(1, 1, 1), AReleaseRq, AReleaseRp, AAbort(0, 0),
     PDataTf(<<PDV(1, TRUE, TRUE, EncodeMessage(EchoRq))>>)}

ReaderInit ==
    /\ sm = [m \in {"provider"} |-> StartMachine("provider")]
    /\ \E stream \in SeqsUpTo(StreamPDUs, MaxStream) :
          env = [stream |-> stream, arrived |-> <<>>, posted |-> <<>>, dispatched |-> <<>>,
                 failed |-> FALSE]
    /\ frag = NoFrag
    /\ codec = NoCodec

\* the reader reads the next PDU and posts its event
ReaderRead(m) ==
    /\ m \in DOMAIN sm
    /\ sm[m].reader = "running"
    /\ env.stream # <<>>
    /\ Len(sm[m].netCh) < NetChCapacity
    /\ LET v == Head(env.stream) IN
       /\ sm' = [sm EXCEPT ![m].netCh = Append(@, Event(eventOfPDU(v), v, NoPayload))]
       /\ env' = [env EXCEPT !.stream = Tail(@), !.arrived = Append(@, v),
                             !.posted = Append(@, eventOfPDU(v))]
    /\ UNCHANGED <<frag, codec>>

\* the read fails: evt17 for an EOF, evt19 for another error; the reader closes its
\* channel and exits
ReaderFail(m) ==
    /\ m \in DOMAIN sm
    /\ sm[m].reader = "running"
    /\ Len(sm[m].netCh) < NetChCapacity
    /\ \E e \in {evt17, evt19} :
          /\ sm' = [sm EXCEPT ![m].netCh = Append(@, PlainEvent(e)),
                              ![m].netChState = "closed", ![m].reader = "exited"]
          /\ env' = [env EXCEPT !.posted = Append(@, e), !.failed = TRUE]
    /\ UNCHANGED <<frag, codec>>

\* getNextEvent receives from netCh
ReaderStepNet(m) ==
    /\ Running(m)
    /\ sm[m].netChState # "nil"
    /\ sm[m].netCh # <<>>
    /\ \E w \in WriteOutcomes :
        sm' = [sm EXCEPT ![m] = Stepped([sm[m] EXCEPT !.netCh = Tail(@)], Head(sm[m].netCh), w)]
    /\ env' = [env EXCEPT !.dispatched = Append(@, Head(sm[m].netCh).event)]
    /\ UNCHANGED <<frag, codec>>

ReaderNext ==
    \E m \in Roles :
        \/ ReaderRead(m)
        \/ ReaderFail(m)
        \/ TimerExpire(m)
        \/ ReaderStepNet(m)
        \/ StepNetClosed(m)
        \/ StepError(m)
        \/ StepTimer(m)
        \/ StepDowncall(m)

SpecReader == ReaderInit /\ [][ReaderNext]_vars

(***************************************************************************)
(* Properties of the fragmenter and the assembler (SpecFrag).              *)
(***************************************************************************)
CeilDiv(n, d) == (n + d - 1) \div d

RECURSIVE ConcatValues(_)
ConcatValues(pdus) ==
    IF pdus = <<>> THEN <<>> ELSE Head(pdus).Items[1].Value \o ConcatValues(Tail(pdus))

\* bytes of a P-DATA-TF on the wire: the 6-byte PDU header, and per PDV a 4-byte
\* length, the context ID, the message control header and the value
RECURSIVE PDVBytes(_)
PDVBytes(items) ==
    IF items = <<>> THEN 0 ELSE 4 + 1 + 1 + Len(Head(items).Value) + PDVBytes(Tail(items))

SerializedLength(pdu) == 6 + PDVBytes(pdu.Items)

FragPdus == frag.cmdPdus \o frag.dataPdus

FragContextID == lookupByAbstractSyntaxUID(frag.cm, AbstractSyntaxOf(frag.msg))

Incomplete == [contextID |-> 0, command |-> NoMessage, data |-> <<>>, err |-> ""]

\* C7: feeding the PDUs of DT-1, in order, to a fresh assembler gives "incomplete" on
\* every PDU but the last and (context ID, message, data) without error on the last.
AssemblyRoundTrip ==
    \A i \in 1..Len(frag.results) :
        IF i < Len(FragPdus)
        THEN frag.results[i] = Incomplete
        ELSE frag.results[i] = [contextID |-> FragContextID, command |-> frag.msg,
                                data |-> frag.data, err |-> ""]

\* what splitDataIntoPDUs must return for data, a command flag, and the peer size
SplitLaw(data, command, pdus) ==
    LET chunk == frag.cm.peerMaxPDUSize - 8 IN
    /\ Len(pdus) = CeilDiv(Len(data), chunk)
    /\ ConcatValues(pdus) = data
    /\ \A i \in 1..Len(pdus) :
        /\ pdus[i].type = "P-DATA-TF"
        /\ Len(pdus[i].Items) = 1
        /\ pdus[i].Items[1].ContextID = (IF AbstractSyntaxOf(frag.msg) = VerificationSOPClass
                                         THEN 1 ELSE 3)
        /\ pdus[i].Items[1].Command = command
        /\ pdus[i].Items[1].Last = (i = Len(pdus))
        /\ (i < Len(pdus) => Len(pdus[i].Items[1].Value) = chunk)

FragmentationBound ==
    \A i \in 1..Len(FragPdus) : SerializedLength(FragPdus[i]) <= frag.cm.peerMaxPDUSize

(***************************************************************************)
(* Properties of the lone machine (Spec).                                  *)
(***************************************************************************)
ActionNames ==
    {"AE-1", "AE-2", "AE-3", "AE-4", "AE-5", "AE-6", "AE-7", "AE-8", "DT-1", "DT-2",
     "AR-1", "AR-2", "AR-3", "AR-4", "AR-5", "AR-6", "AR-7", "AR-8", "AR-9", "AR-10",
     "AA-1", "AA-2", "AA-3", "AA-4", "AA-5", "AA-6", "AA-7", "AA-8"}

HandshakesOf(s) == Len(SelectSeq(s.upcalls, LAMBDA u : u.eventType = "HandshakeCompleted"))

\* C1: close is called on the upcall channel at most once, whoever calls it, and a
\* machine whose loop has exited in sta01 has had it called exactly once.
UpcallClosedExactlyOnce ==
    \A m \in DOMAIN sm :
        /\ sm[m].upcallCloses <= 1
        /\ sm[m].pc = "done" => sm[m].upcallCloses = 1
        /\ sm[m].currentState = sta01 => sm[m].pc = "done"

\* a loop that exited on evt17: getNextEvent closed the channel, the action did not
ExitedOnTransportLoss ==
    \E m \in DOMAIN sm :
        sm[m].pc = "done" /\ sm[m].lastEvent = evt17 /\ sm[m].upcallCloses = 1

\* the action the table lists for a pair, or AA-2
ListedAction(state, e) ==
    IF <<state, e>> \in DOMAIN stateTransitions THEN stateTransitions[<<state, e>>]
    ELSE "AA-2"

\* for every pair of sta02..sta13 and evt01..evt19 the action runOneStep runs is the
\* listed one, and it is one of the actions
EveryPairHasAnAction ==
    \A state \in States \ {sta01}, e \in Events :
        /\ actionFor(findAction(state, PlainEvent(e))) = ListedAction(state, e)
        /\ ListedAction(state, e) \in ActionNames

\* C2: every step ran the action the table lists for its (state, event) pair, or AA-2
\* for a pair that is not listed; a step that ran AA-2 left the timer stopped, the
\* socket closed and the machine in sta01; the current state is one of sta01..sta13;
\* and for every pair of sta02..sta13 and evt01..evt19 runOneStep's choice is a known
\* action.
TransitionTotality ==
    /\ \A m \in DOMAIN sm :
        /\ sm[m].currentState \in States
        /\ sm[m].lastEvent # 0 =>
              sm[m].lastAction = ListedAction(sm[m].lastState, sm[m].lastEvent)
        /\ sm[m].lastAction = "AA-2" =>
              /\ sm[m].currentState = sta01
              /\ sm[m].pc = "done"
              /\ sm[m].timer = "inert"
              /\ sm[m].sock # "open"
    /\ EveryPairHasAnAction

\* a step for a pair that is not listed, on an open socket: AA-2 closed it
FellBackToAa2 ==
    \E m \in DOMAIN sm :
        /\ <<sm[m].lastState, sm[m].lastEvent>> \notin DOMAIN stateTransitions
        /\ sm[m].lastAction = "AA-2"
        /\ sm[m].sock = "closed"
        /\ sm[m].pc = "done"

\* C3: HandshakeCompleted is sent at most once; it has been sent as often as the
\* machine entered sta06; the step into sta06 is AE-3 on the requestor and AE-7 on the
\* acceptor and its upcall is the HandshakeCompleted; a machine that is in sta06 has
\* sent it.
HandshakeCompletedOnce ==
    \A m \in DOMAIN sm :
        /\ HandshakesOf(sm[m]) <= 1
        /\ HandshakesOf(sm[m]) = sm[m].entered06
        /\ sm[m].currentState = sta06 => HandshakesOf(sm[m]) = 1
        /\ sm[m].currentState = sta06 /\ sm[m].lastState # sta06 =>
              /\ sm[m].lastAction = IF sm[m].isUser THEN "AE-3" ELSE "AE-7"
              /\ sm[m].upcalls = <<HandshakeCompleted>>

\* the acceptor has entered sta06 and has since left it, the upcall channel closed
AcceptorHandshakeThenClosed ==
    \E m \in DOMAIN sm :
        /\ ~sm[m].isUser
        /\ sm[m].entered06 = 1
        /\ sm[m].upcallCloses = 1
        /\ sm[m].pc = "done"

\* C4: a P-DATA-TF that completes a message in the assembler, received in sta06 or in
\* sta07, adds the DataIndication of that message to the upcalls.
DataIndicationInSta06AndSta07 ==
    [][\A m \in DOMAIN sm :
          (/\ sm[m].currentState \in {sta06, sta07}
           /\ sm[m].netCh # <<>>
           /\ Head(sm[m].netCh).event = evt10
           /\ StepNet(m)
           /\ AddDataPDU(sm[m].commandAssembler, Head(sm[m].netCh).pdu).err = ""
           /\ AddDataPDU(sm[m].commandAssembler, Head(sm[m].netCh).pdu).command # NoMessage)
          => \E u \in {AddDataPDU(sm[m].commandAssembler, Head(sm[m].netCh).pdu)} :
                sm'[m].upcalls =
                    Append(sm[m].upcalls, DataIndication(u.contextID, u.command, u.data))]_vars

\* a machine as it is in a state the bounds may not reach: the transport is there
MachineIn(isUser, state) ==
    [NewMachine(isUser) EXCEPT !.currentState = state, !.conn = "set", !.sock = "open",
                               !.timer = "armed"]

\* from every state sta02..sta13 of either role, one evt17 leads to sta01 and at most
\* two evt18 do
EveryStateReachesSta01 ==
    \A isUser \in BOOLEAN, state \in States \ {sta01} :
        /\ runOneStep(MachineIn(isUser, state), PlainEvent(evt17)).currentState = sta01
        /\ runOneStep(MachineIn(isUser, state), PlainEvent(evt17)).pc = "done"
        /\ \/ runOneStep(MachineIn(isUser, state), PlainEvent(evt18)).currentState = sta01
           \/ runOneStep(runOneStep(MachineIn(isUser, state), PlainEvent(evt18)),
                         PlainEvent(evt18)).currentState = sta01

\* C5: a step on evt17 ends in sta01 with the loop exited; a step on evt18 ends in
\* sta01, or in sta13 with the timer started again, from where the next evt18 ends in
\* sta01; and the same holds from every state sta02..sta13 of either role.
TransportLossAndTimerReachSta01 ==
    /\ \A m \in DOMAIN sm :
        /\ sm[m].lastEvent = evt17 => sm[m].currentState = sta01 /\ sm[m].pc = "done"
        /\ sm[m].lastEvent = evt18 =>
              \/ sm[m].currentState = sta01 /\ sm[m].pc = "done"
              \/ sm[m].currentState = sta13 /\ sm[m].lastState # sta13
                    /\ sm[m].timer \in {"armed", "fired"} /\ sm[m].pc = "run"
    /\ EveryStateReachesSta01

\* the timer expired twice: in sta05, which led to sta13, and there, which led to sta01
TimerTwiceToSta01 ==
    \E m \in DOMAIN sm :
        /\ sm[m].lastEvent = evt18
        /\ sm[m].lastState = sta13
        /\ sm[m].isUser
        /\ sm[m].pc = "done"

CommandItems(pdus) == SelectSeq(pdus, LAMBDA p : p.Items[1].Command)

DataItems(pdus) == SelectSeq(pdus, LAMBDA p : ~p.Items[1].Command)

\* C10: the PDUs a step on evt09 in sta06 writes are P-DATA-TF PDUs, the command
\* fragments before the data fragments; the command fragments carry a prefix of the
\* encoded command and the data fragments a prefix of the data, which come only after
\* the whole command and only for a command that has data; on a transport that took
\* every write they carry all of both.
DimseWrittenInOrder ==
    [][\A m \in DOMAIN sm :
          (/\ sm[m].currentState = sta06
           /\ sm[m].downcallCh # <<>>
           /\ Head(sm[m].downcallCh).event = evt09
           /\ StepDowncall(m)
           /\ sm'[m].pc # "panic")
          => \E payload \in {Head(sm[m].downcallCh).dimsePayload} :
             \E wire \in {sm'[m].wire} :
                /\ \A i \in 1..Len(wire) : wire[i].type = "P-DATA-TF" /\ Len(wire[i].Items) = 1
                /\ wire = CommandItems(wire) \o DataItems(wire)
                /\ ConcatValues(CommandItems(wire))
                     = Take(EncodeMessage(payload.command), Len(ConcatValues(CommandItems(wire))))
                /\ ConcatValues(DataItems(wire))
                     = Take(payload.data, Len(ConcatValues(DataItems(wire))))
                /\ DataItems(wire) # <<>> =>
                     /\ HasData(payload.command)
                     /\ ConcatValues(CommandItems(wire)) = EncodeMessage(payload.command)
                /\ sm'[m].sock = "open" =>
                     /\ ConcatValues(CommandItems(wire)) = EncodeMessage(payload.command)
                     /\ ConcatValues(DataItems(wire))
                          = IF HasData(payload.command) THEN payload.data ELSE <<>>]_vars

\* DT-1 wrote a command in several fragments and its data after them
WroteCommandThenData ==
    \E m \in DOMAIN sm :
        /\ sm[m].lastAction = "DT-1"
        /\ sm[m].sock = "open"
        /\ Len(CommandItems(sm[m].wire)) >= 2
        /\ Len(DataItems(sm[m].wire)) >= 1

\* C11: a machine whose loop has exited in sta01 after it was given a socket has
\* closed that socket, whatever event ended the loop.
SocketClosedOnEveryTerminalPath ==
    \A m \in DOMAIN sm :
        sm[m].pc = "done" /\ sm[m].sock # "none" => sm[m].sock = "closed"

\* C12: an acceptor in sta02 that takes an A-ASSOCIATE-RQ of another protocol version
\* than 1 runs AE-6, which writes A-ASSOCIATE-RJ {1, 2, 2} and nothing else, starts the
\* ARTIM timer and moves to sta13, with no upcall, no downcall to itself and the
\* context manager untouched; from sta13 reached this way evt17 ends the loop by AR-5
\* and evt18 by AA-2.
WrongVersionRejected ==
    [][\A m \in DOMAIN sm :
          /\ (/\ sm[m].currentState = sta02
              /\ sm[m].netCh # <<>>
              /\ Head(sm[m].netCh).event = evt06
              /\ Head(sm[m].netCh).pdu.ProtocolVersion # 1
              /\ StepNet(m))
             => /\ sm'[m].currentState = sta13
                /\ sm'[m].pc = "run"
                /\ sm'[m].lastAction = "AE-6"
                /\ sm'[m].timer = "armed"
                /\ sm'[m].upcalls = <<>>
                /\ sm'[m].downcallCh = sm[m].downcallCh
                /\ sm'[m].contextManager = newContextManager
                /\ sm'[m].sock = "open" => sm'[m].wire = <<AAssociateRj(1, 2, 2)>>
                /\ sm'[m].sock # "open" => sm'[m].wire = <<>>
          /\ (/\ sm[m].currentState = sta13
              /\ sm[m].lastAction = "AE-6"
              /\ sm[m].lastState = sta02
              /\ sm'[m] # sm[m]
              /\ sm'[m].lastEvent \in {evt17, evt18}
              /\ sm'[m].lastState = sta13)
             => /\ sm'[m].currentState = sta01
                /\ sm'[m].pc = "done"
                /\ sm'[m].lastAction = IF sm'[m].lastEvent = evt17 THEN "AR-5" ELSE "AA-2"
                /\ HandshakesOf(sm'[m]) = 0]_vars

\* the acceptor rejected a request of version 2, wrote the A-ASSOCIATE-RJ and is in sta13
RejectedWrongVersion ==
    \E m \in DOMAIN sm :
        /\ ~sm[m].isUser
        /\ sm[m].lastState = sta02
        /\ sm[m].lastAction = "AE-6"
        /\ sm[m].currentState = sta13
        /\ sm[m].wire = <<AAssociateRj(1, 2, 2)>>
        /\ sm[m].timer = "armed"

\* C13: release collision on the requestor: the step on evt12 in sta07 ran AR-8 and
\* led to sta09; the step on evt14 in sta09 ran AR-9, wrote A-RELEASE-RP and led to
\* sta11; the step on evt13 in sta11 ran AR-3 and led to sta01 with the loop exited,
\* the socket closed and the upcall channel closed.
RequestorReleaseCollision ==
    \A m \in DOMAIN sm :
        sm[m].isUser =>
            /\ sm[m].lastState = sta07 /\ sm[m].lastEvent = evt12 =>
                  /\ sm[m].lastAction = "AR-8"
                  /\ sm[m].currentState = sta09
                  /\ sm[m].wire = <<>>
            /\ sm[m].lastState = sta09 /\ sm[m].lastEvent = evt14 =>
                  /\ sm[m].lastAction = "AR-9"
                  /\ sm[m].currentState = sta11
                  /\ sm[m].sock = "open" => sm[m].wire = <<AReleaseRp>>
            /\ sm[m].lastState = sta11 /\ sm[m].lastEvent = evt13 =>
                  /\ sm[m].lastAction = "AR-3"
                  /\ sm[m].currentState = sta01
                  /\ sm[m].pc = "done"
                  /\ sm[m].sock = "closed"
                  /\ sm[m].upcallCloses = 1

\* the requestor went through the collision to its end: sta11 is entered only from
\* sta09, and sta09 only from sta07 on evt12
CollisionRunToSta01 ==
    \E m \in DOMAIN sm :
        /\ sm[m].isUser
        /\ sm[m].lastState = sta11
        /\ sm[m].lastEvent = evt13
        /\ sm[m].pc = "done"

\* the ARTIM timer of a machine in sta13 is running or its tick is waiting to be taken
TimerArmedInSta13 ==
    \A m \in DOMAIN sm :
        sm[m].currentState = sta13 /\ sm[m].pc = "run" => sm[m].timer \in {"armed", "fired"}

\* a step on evt18 in sta13 ran AA-2 and ended the loop in sta01 with the socket closed
TimerEndsSta13 ==
    \A m \in DOMAIN sm :
        sm[m].lastState = sta13 /\ sm[m].lastEvent = evt18 =>
            /\ sm[m].lastAction = "AA-2"
            /\ sm[m].currentState = sta01
            /\ sm[m].pc = "done"
            /\ sm[m].sock = "closed"

\* an event of each kind, with the PDU or the payload its action reads
EventsOf(e) ==
    CASE e = evt03 -> {Event(evt03, AcceptingAC, NoPayload), Event(evt03, RejectingAC, NoPayload)}
      [] e = evt06 -> {Event(evt06, GoodRQ(1), NoPayload), Event(evt06, GoodRQ(2), NoPayload)}
      [] e = evt07 -> {Event(evt07, AcceptingAC, NoPayload)}
      [] e = evt08 -> {Event(evt08, AAssociateRj(1, 2, 1), NoPayload)}
      [] e = evt09 -> {Event(evt09, NoPDU, DimsePayload(VerificationSOPClass, EchoRq, <<>>))}
      [] e = evt10 -> {Event(evt10, p, NoPayload) : p \in AssociatedPData}
      [] OTHER -> {PlainEvent(e)}

\* a machine with a negotiated context, in a state the bounds may not reach, its timer
\* not running
IdleMachineIn(isUser, state) ==
    [MachineIn(isUser, state) EXCEPT !.timer = "inert",
                                     !.contextManager = NegotiatedCM(SmallPeerSize, <<1>>)]

\* every step of the table that enters sta13 from another state starts the timer, and
\* every step that stays in sta13 leaves a running timer running
EveryEntryToSta13ArmsTimer ==
    \A isUser \in BOOLEAN, state \in States \ {sta01}, e \in Events :
        \A event \in EventsOf(e) :
            /\ (state # sta13 /\ runOneStep(IdleMachineIn(isUser, state), event).currentState = sta13)
                  => runOneStep(IdleMachineIn(isUser, state), event).timer = "armed"
            /\ (state = sta13 /\ runOneStep(MachineIn(isUser, state), event).currentState = sta13)
                  => runOneStep(MachineIn(isUser, state), event).timer = "armed"

\* C14: in sta13 the ARTIM timer is always armed, since every step that enters sta13
\* arms it and every step that stays there leaves it armed; a step on evt18 there ends
\* the loop in sta01 by AA-2 with the socket closed; and a machine that is in sta13
\* leaves its loop in sta01 sooner or later.
Sta13NeverForever ==
    /\ [](TimerArmedInSta13 /\ TimerEndsSta13 /\ EveryEntryToSta13ArmsTimer)
    /\ (\E m \in DOMAIN sm : sm[m].currentState = sta13)
          ~> (\E m \in DOMAIN sm : sm[m].currentState = sta01 /\ sm[m].pc = "done")

\* a machine entered sta13 by AA-8, saw no evt17, and its loop ended on evt18 by AA-2
Sta13LeftOnTimer ==
    \E m \in DOMAIN sm :
        /\ sm[m].lastState = sta13
        /\ sm[m].lastEvent = evt18
        /\ sm[m].lastAction = "AA-2"
        /\ sm[m].pc = "done"
        /\ sm[m].reader = "running"
        /\ sm[m].errorCh = <<>>

\* the context ID the first PDV of the assembly under way established
EstablishedContext(a, pdu) ==
    IF a = EmptyAssembler THEN pdu.Items[1].ContextID ELSE a.contextID

\* a PDV of the PDU carries another context ID than the one established
MixesContexts(a, pdu) ==
    \E i \in 1..Len(pdu.Items) : pdu.Items[i].ContextID # EstablishedContext(a, pdu)

\* the step DT-2 takes on a failed assembly: no upcall, A-ABORT written, ARTIM started,
\* sta13
AbortedAssembly(s, t) ==
    /\ t.currentState = sta13
    /\ t.lastAction = "DT-2"
    /\ t.upcalls = s.upcalls
    /\ t.timer = "armed"
    /\ t.sock = "open" => t.wire = <<AAbort(2, 0)>>

\* C15: a P-DATA-TF taken in sta06 that has a PDV whose context ID differs from the
\* one the first PDV of the assembly established makes the machine emit no
\* DataIndication, write A-ABORT, start the ARTIM timer and move to sta13.
MixedContextAborts ==
    [][\A m \in DOMAIN sm :
          (/\ sm[m].currentState = sta06
           /\ sm[m].netCh # <<>>
           /\ Head(sm[m].netCh).event = evt10
           /\ MixesContexts(sm[m].commandAssembler, Head(sm[m].netCh).pdu)
           /\ StepNet(m))
          => AbortedAssembly(sm[m], sm'[m])]_vars

\* the same for PDVs whose established context ID is not 0
NonzeroMixedContextAborts ==
    [][\A m \in DOMAIN sm :
          (/\ sm[m].currentState = sta06
           /\ sm[m].netCh # <<>>
           /\ Head(sm[m].netCh).event = evt10
           /\ MixesContexts(sm[m].commandAssembler, Head(sm[m].netCh).pdu)
           /\ EstablishedContext(sm[m].commandAssembler, Head(sm[m].netCh).pdu) # 0
           /\ StepNet(m))
          => AbortedAssembly(sm[m], sm'[m])]_vars

\* C16: the close of the downcall channel is no event (the step that finds the channel
\* closed changes nothing but the channel reference), and a machine whose downcall
\* channel is closed neither panics nor blocks for ever: it runs or has left its loop.
ClosedDowncallHarmless ==
    [][\A m \in DOMAIN sm :
          /\ StepDowncallClosed(m) => sm'[m] = [sm[m] EXCEPT !.downcallState = "nil"]
          /\ sm'[m].downcallState # "open" => sm'[m].pc \in {"run", "done"}]_vars

\* the AE title fields of the bytes on the wire
WireCalledAETitle == SubSeq(codec.written.bytes, 5, 4 + AETitleLength)

WireCallingAETitle ==
    SubSeq(codec.written.bytes, 5 + AETitleLength, 4 + 2 * AETitleLength)

\* C17: for an A-ASSOCIATE-RQ with non-empty AE titles of at most 16 characters, Write
\* returns bytes without error, and Read of those bytes returns without error a PDU
\* with the same protocol version, the same sub-item list and the same AE titles up to
\* trailing spaces
AAssociateRQRoundTrip ==
    (/\ ~codec.peer
     /\ codec.stage \in {"written", "read"}
     /\ codec.pdu.CalledAETitle # <<>> /\ Len(codec.pdu.CalledAETitle) <= AETitleLength
     /\ codec.pdu.CallingAETitle # <<>> /\ Len(codec.pdu.CallingAETitle) <= AETitleLength)
    => /\ ~codec.written.err
       /\ codec.stage = "read" =>
            /\ ~codec.read.err
            /\ codec.read.pdu.ProtocolVersion = codec.pdu.ProtocolVersion
            /\ codec.read.pdu.Items = codec.pdu.Items
            /\ TrimRightSpace(codec.read.pdu.CalledAETitle)
                 = TrimRightSpace(codec.pdu.CalledAETitle)
            /\ TrimRightSpace(codec.read.pdu.CallingAETitle)
                 = TrimRightSpace(codec.pdu.CallingAETitle)

\* a PDU with two sub-items and a called AE title that ends in a space was written
\* and read back with its title padded
RoundTripPaddedTitle ==
    /\ codec.stage = "read"
    /\ ~codec.peer
    /\ ~codec.read.err
    /\ codec.pdu.CalledAETitle = <<65, 32, 66, 32>>
    /\ codec.read.pdu.CalledAETitle # codec.pdu.CalledAETitle
    /\ Len(codec.pdu.Items) >= 2
    /\ codec.pdu.ProtocolVersion # CurrentProtocolVersion

\* Write refuses a PDU with an empty AE title and produces no bytes
EmptyAETitleNotWritten ==
    (/\ codec.stage = "written"
     /\ ~codec.peer
     /\ (codec.pdu.CalledAETitle = <<>> \/ codec.pdu.CallingAETitle = <<>>))
    => codec.written.err /\ codec.written.bytes = <<>>

\* C18: an A-ASSOCIATE-RQ with an empty AE title is invalid in both directions: Write
\* returns an error and no bytes for it, and Read returns an error for bytes whose
\* called or calling AE title field is 16 spaces
EmptyAETitleInvalid ==
    /\ EmptyAETitleNotWritten
    /\ (/\ codec.stage = "read"
        /\ (WireCalledAETitle = Spaces(AETitleLength)
            \/ WireCallingAETitle = Spaces(AETitleLength)))
       => codec.read.err


\* the bytes of the sub-items on the wire, after the fixed fields of the PDU
WireItemBytes == Drop(codec.written.bytes, 4 + 2 * AETitleLength + 8 * 4)

\* a sub-item on the wire fails to decode: the items that decode do not account for
\* all the bytes
WireItemFailsToDecode == WriteItems(ReadItems(WireItemBytes)) # WireItemBytes

\* C33: Read returns an error for every A-ASSOCIATE-RQ payload one of whose sub-items
\* fails to decode; it never returns, without error, a PDU whose items are only those
\* before the failing one.
BadSubItemRejected ==
    (codec.stage = "read" /\ WireItemFailsToDecode) => codec.read.err

\* what holds instead: Read returns no error for bytes that hold the fixed fields,
\* and its PDU carries the items that decoded before the failing one
BadSubItemTruncatesItems ==
    codec.stage = "read"
    => /\ ~codec.read.err
       /\ codec.read.pdu.Items = ReadItems(WireItemBytes)
       /\ WireItemFailsToDecode =>
             /\ Len(codec.read.pdu.Items) < Len(codec.pdu.Items)
             /\ codec.read.pdu.Items = Take(codec.pdu.Items, Len(codec.read.pdu.Items))

\* Read returned no error and one item for bytes that held two, the second cut short
TruncatedItemsAccepted ==
    /\ codec.stage = "read"
    /\ ~codec.read.err
    /\ Len(codec.pdu.Items) = 2
    /\ codec.read.pdu.Items = <<codec.pdu.Items[1]>>
    /\ WireItemFailsToDecode

\* the response carries a presentation context the acceptor accepted
HasAcceptedContext(pdu) == \E i \in 1..Len(pdu.Items) : IsAccepted(pdu.Items[i])

\* C19: the requestor enters its loop in sta04 by AE-1 on evt01; its step on evt02 in
\* sta04 runs AE-2, writes one A-ASSOCIATE-RQ with the current protocol version and the
\* configured AE titles, arms the ARTIM timer and leads to sta05; its step on evt03 in
\* sta05 runs AE-3, which for a response with an accepted context leaves the timer
\* stopped, sends HandshakeCompleted and leads to sta06, and otherwise writes A-ABORT,
\* arms the timer and leads to sta13 with no HandshakeCompleted.
RequestorEstablishment ==
    /\ [](\A m \in DOMAIN sm :
            (sm[m].isUser /\ sm[m].lastEvent = evt01)
            => /\ sm[m].currentState = sta04
               /\ sm[m].lastAction = "AE-1"
               /\ sm[m].pc = "run"
               /\ sm[m].upcalls = <<>>)
    /\ [][\A m \in DOMAIN sm :
            /\ (/\ sm[m].currentState = sta04
                /\ sm[m].downcallCh # <<>>
                /\ Head(sm[m].downcallCh).event = evt02
                /\ StepDowncall(m))
               => /\ sm'[m].currentState = sta05
                  /\ sm'[m].pc = "run"
                  /\ sm'[m].lastAction = "AE-2"
                  /\ sm'[m].timer = "armed"
                  /\ sm'[m].upcalls = <<>>
                  /\ sm'[m].sock # "open" => sm'[m].wire = <<>>
                  /\ sm'[m].sock = "open" =>
                       /\ Len(sm'[m].wire) = 1
                       /\ sm'[m].wire[1].type = "A-ASSOCIATE-RQ"
                       /\ sm'[m].wire[1].ProtocolVersion = CurrentProtocolVersion
                       /\ sm'[m].wire[1].CalledAETitle = sm[m].userParams.CalledAETitle
                       /\ sm'[m].wire[1].CallingAETitle = sm[m].userParams.CallingAETitle
            /\ (/\ sm[m].currentState = sta05
                /\ sm[m].netCh # <<>>
                /\ Head(sm[m].netCh).event = evt03
                /\ StepNet(m))
               => /\ sm'[m].lastAction = "AE-3"
                  /\ sm'[m].pc = "run"
                  /\ HasAcceptedContext(Head(sm[m].netCh).pdu) =>
                       /\ sm'[m].currentState = sta06
                       /\ sm'[m].timer = "inert"
                       /\ sm'[m].upcalls = <<HandshakeCompleted>>
                       /\ sm'[m].wire = <<>>
                  /\ ~HasAcceptedContext(Head(sm[m].netCh).pdu) =>
                       /\ sm'[m].currentState = sta13
                       /\ sm'[m].timer = "armed"
                       /\ HandshakesOf(sm'[m]) = 0
                       /\ sm'[m].sock = "open" => sm'[m].wire = <<AAbort(2, 0)>>
                       /\ sm'[m].sock # "open" => sm'[m].wire = <<>>]_vars

\* the requestor took an accepting A-ASSOCIATE-AC in sta05 and is in sta06 with the
\* timer stopped and the one HandshakeCompleted sent
RequestorEstablished ==
    \E m \in DOMAIN sm :
        /\ sm[m].isUser
        /\ sm[m].lastState = sta05
        /\ sm[m].lastEvent = evt03
        /\ sm[m].lastAction = "AE-3"
        /\ sm[m].currentState = sta06
        /\ sm[m].timer = "inert"
        /\ sm[m].upcalls = <<HandshakeCompleted>>

\* the requestor took an A-ASSOCIATE-AC without an accepted context and is in sta13
RequestorRefusedResponse ==
    \E m \in DOMAIN sm :
        /\ sm[m].isUser
        /\ sm[m].lastState = sta05
        /\ sm[m].lastEvent = evt03
        /\ sm[m].currentState = sta13
        /\ sm[m].wire = <<AAbort(2, 0)>>


\* C20: the acceptor enters its loop in sta02 by AE-5 on evt05 with the ARTIM timer
\* armed; its step on an A-ASSOCIATE-RQ of version 1 in sta02 runs AE-6, leaves the
\* timer stopped, leads to sta03 and appends exactly one event, evt07 or evt08, to its
\* own downcall channel, an evt07 carrying the AE titles of the request; its step on
\* evt07 in sta03 runs AE-7, writes that A-ASSOCIATE-AC, then sends HandshakeCompleted
\* and leads to sta06; the acceptor sends HandshakeCompleted in no other step.
AcceptorEstablishment ==
    /\ [](\A m \in DOMAIN sm :
            (~sm[m].isUser /\ sm[m].lastEvent = evt05)
            => /\ sm[m].currentState = sta02
               /\ sm[m].lastAction = "AE-5"
               /\ sm[m].timer \in {"armed", "fired"}
               /\ sm[m].pc = "run"
               /\ sm[m].upcalls = <<>>)
    /\ [][\A m \in DOMAIN sm :
            /\ (/\ sm[m].currentState = sta02
                /\ sm[m].netCh # <<>>
                /\ Head(sm[m].netCh).event = evt06
                /\ Head(sm[m].netCh).pdu.ProtocolVersion = CurrentProtocolVersion
                /\ StepNet(m))
               => /\ sm'[m].currentState = sta03
                  /\ sm'[m].pc = "run"
                  /\ sm'[m].lastAction = "AE-6"
                  /\ sm'[m].timer = "inert"
                  /\ sm'[m].wire = <<>>
                  /\ sm'[m].upcalls = <<>>
                  /\ Len(sm'[m].downcallCh) = Len(sm[m].downcallCh) + 1
                  /\ SubSeq(sm'[m].downcallCh, 1, Len(sm[m].downcallCh)) = sm[m].downcallCh
                  /\ LET posted == sm'[m].downcallCh[Len(sm'[m].downcallCh)] IN
                     /\ posted.event \in {evt07, evt08}
                     /\ posted.event = evt07 =>
                          /\ posted.pdu.type = "A-ASSOCIATE-AC"
                          /\ posted.pdu.CalledAETitle = Head(sm[m].netCh).pdu.CalledAETitle
                          /\ posted.pdu.CallingAETitle = Head(sm[m].netCh).pdu.CallingAETitle
            /\ (/\ sm[m].currentState = sta03
                /\ sm[m].downcallCh # <<>>
                /\ Head(sm[m].downcallCh).event = evt07
                /\ StepDowncall(m))
               => /\ sm'[m].currentState = sta06
                  /\ sm'[m].pc = "run"
                  /\ sm'[m].lastAction = "AE-7"
                  /\ sm'[m].upcalls = <<HandshakeCompleted>>
                  /\ sm'[m].sock = "open" => sm'[m].wire = <<Head(sm[m].downcallCh).pdu>>
                  /\ sm'[m].sock # "open" => sm'[m].wire = <<>>
            /\ (/\ ~sm[m].isUser
                /\ HandshakesOf(sm'[m]) > HandshakesOf(sm[m]))
               => /\ sm[m].currentState = sta03
                  /\ sm'[m].lastAction = "AE-7"
                  /\ sm'[m].sock = "open" =>
                       (sm'[m].wire # <<>> /\ sm'[m].wire[1].type = "A-ASSOCIATE-AC")]_vars

\* the acceptor took a request with the AE titles AET_D and AET_C, wrote the
\* A-ASSOCIATE-AC with these titles, sent HandshakeCompleted and is in sta06
AcceptorEstablished ==
    \E m \in DOMAIN sm :
        /\ ~sm[m].isUser
        /\ sm[m].lastState = sta03
        /\ sm[m].lastEvent = evt07
        /\ sm[m].lastAction = "AE-7"
        /\ sm[m].currentState = sta06
        /\ Len(sm[m].wire) = 1
        /\ sm[m].wire[1].type = "A-ASSOCIATE-AC"
        /\ sm[m].wire[1].CalledAETitle = "AET_D"
        /\ sm[m].wire[1].CallingAETitle = "AET_C"
        /\ sm[m].upcalls = <<HandshakeCompleted>>


\* the acceptor has refused a request in AE-6 and its evt08 waits in the downcall channel
NegotiationFailed(m) ==
    /\ m \in DOMAIN sm
    /\ sm[m].currentState = sta03
    /\ sm[m].lastAction = "AE-6"
    /\ sm[m].downcallCh # <<>>
    /\ sm[m].downcallCh[Len(sm[m].downcallCh)].event = evt08

\* C21: an acceptor in sta02 that takes a request of version 1 whose negotiation fails
\* (no user information, no context accepted) posts evt08 with an A-ASSOCIATE-RJ of
\* result rejected-permanent and source UL-service-provider-ACSE to itself, writes
\* nothing and is in sta03; its step on that evt08 runs AE-8, writes the
\* A-ASSOCIATE-RJ, arms the ARTIM timer and leads to sta13; and once it has refused
\* the request it never sends HandshakeCompleted and never is in sta06.
FailedNegotiationRejected ==
    /\ [][\A m \in DOMAIN sm :
            /\ (/\ sm[m].currentState = sta02
                /\ sm[m].netCh # <<>>
                /\ Head(sm[m].netCh).event = evt06
                /\ Head(sm[m].netCh).pdu \in FailingRequests
                /\ StepNet(m))
               => /\ sm'[m].currentState = sta03
                  /\ sm'[m].pc = "run"
                  /\ sm'[m].lastAction = "AE-6"
                  /\ sm'[m].wire = <<>>
                  /\ sm'[m].upcalls = <<>>
                  /\ Len(sm'[m].downcallCh) = Len(sm[m].downcallCh) + 1
                  /\ LET posted == sm'[m].downcallCh[Len(sm'[m].downcallCh)] IN
                     /\ posted.event = evt08
                     /\ posted.pdu.type = "A-ASSOCIATE-RJ"
                     /\ posted.pdu.Result = ResultRejectedPermanent
                     /\ posted.pdu.Source = SourceULServiceProviderACSE
            /\ (/\ sm[m].currentState = sta03
                /\ sm[m].downcallCh # <<>>
                /\ Head(sm[m].downcallCh).event = evt08
                /\ StepDowncall(m))
               => /\ sm'[m].currentState = sta13
                  /\ sm'[m].pc = "run"
                  /\ sm'[m].lastAction = "AE-8"
                  /\ sm'[m].timer = "armed"
                  /\ sm'[m].upcalls = <<>>
                  /\ sm'[m].sock = "open" => sm'[m].wire = <<Head(sm[m].downcallCh).pdu>>
                  /\ sm'[m].sock # "open" => sm'[m].wire = <<>>]_vars
    /\ []((\E m \in Roles : NegotiationFailed(m))
          => [](\A m \in DOMAIN sm :
                  HandshakesOf(sm[m]) = 0 /\ sm[m].currentState # sta06
                  /\ sm[m].entered06 = 0))

\* the acceptor refused a request without user information and is in sta13 with the
\* A-ASSOCIATE-RJ written and the timer armed
RejectedFailedNegotiation ==
    \E m \in DOMAIN sm :
        /\ ~sm[m].isUser
        /\ sm[m].lastState = sta03
        /\ sm[m].lastEvent = evt08
        /\ sm[m].lastAction = "AE-8"
        /\ sm[m].currentState = sta13
        /\ sm[m].timer = "armed"
        /\ sm[m].wire = <<AAssociateRj(ResultRejectedPermanent, SourceULServiceProviderACSE, 1)>>
        /\ sm[m].upcalls = <<>>


\* C22: the step on evt11 in sta06 ran AR-1, wrote exactly one A-RELEASE-RQ and led to
\* sta07; the step on evt13 in sta07 ran AR-3, wrote A-RELEASE-RP, closed the socket
\* and the upcall channel and led to sta01 with the loop exited; and a machine whose
\* loop has exited takes no further step.
RequestorRelease ==
    /\ [](\A m \in DOMAIN sm :
            /\ sm[m].lastState = sta06 /\ sm[m].lastEvent = evt11 =>
                  /\ sm[m].lastAction = "AR-1"
                  /\ sm[m].currentState = sta07
                  /\ sm[m].pc = "run"
                  /\ sm[m].upcallCloses = 0
                  /\ sm[m].sock = "open" => sm[m].wire = <<AReleaseRq>>
                  /\ sm[m].sock # "open" => sm[m].wire = <<>>
            /\ sm[m].lastState = sta07 /\ sm[m].lastEvent = evt13 =>
                  /\ sm[m].lastAction = "AR-3"
                  /\ sm[m].currentState = sta01
                  /\ sm[m].pc = "done"
                  /\ sm[m].sock = "closed"
                  /\ sm[m].upcallCloses = 1
                  /\ sm[m].errorCh = <<>> => sm[m].wire = <<AReleaseRp>>)
    /\ [][\A m \in DOMAIN sm : sm[m].pc = "done" => sm'[m] = sm[m]]_vars

\* the requestor asked for the release, took the A-RELEASE-RP in sta07 and its loop
\* has exited with the socket and the upcall channel closed
RequestorReleased ==
    \E m \in DOMAIN sm :
        /\ sm[m].isUser
        /\ sm[m].lastState = sta07
        /\ sm[m].lastEvent = evt13
        /\ sm[m].lastAction = "AR-3"
        /\ sm[m].wire = <<AReleaseRp>>
        /\ sm[m].pc = "done"
        /\ sm[m].sock = "closed"
        /\ sm[m].upcallCloses = 1


\* C23: release collision on the acceptor: the step on evt12 in sta07 ran AR-8 and led
\* to sta10; the step on evt13 in sta10 ran AR-10, wrote nothing and led to sta12; the
\* step on evt14 in sta12 ran AR-4, wrote A-RELEASE-RP, armed the ARTIM timer and led
\* to sta13; and a step on evt17 or evt18 in sta13 led to sta01 with the loop exited.
AcceptorReleaseCollision ==
    \A m \in DOMAIN sm :
        ~sm[m].isUser =>
            /\ sm[m].lastState = sta07 /\ sm[m].lastEvent = evt12 =>
                  /\ sm[m].lastAction = "AR-8"
                  /\ sm[m].currentState = sta10
                  /\ sm[m].wire = <<>>
            /\ sm[m].lastState = sta10 /\ sm[m].lastEvent = evt13 =>
                  /\ sm[m].lastAction = "AR-10"
                  /\ sm[m].currentState = sta12
                  /\ sm[m].wire = <<>>
            /\ sm[m].lastState = sta12 /\ sm[m].lastEvent = evt14 =>
                  /\ sm[m].lastAction = "AR-4"
                  /\ sm[m].currentState = sta13
                  /\ sm[m].timer \in {"armed", "fired"}
                  /\ sm[m].sock = "open" => sm[m].wire = <<AReleaseRp>>
                  /\ sm[m].sock # "open" => sm[m].wire = <<>>
            /\ sm[m].lastState = sta13 /\ sm[m].lastEvent \in {evt17, evt18} =>
                  /\ sm[m].lastAction = IF sm[m].lastEvent = evt17 THEN "AR-5" ELSE "AA-2"
                  /\ sm[m].currentState = sta01
                  /\ sm[m].pc = "done"
            /\ runOneStep(MachineIn(FALSE, sta13), PlainEvent(evt17)).pc = "done"
            /\ runOneStep(MachineIn(FALSE, sta13), PlainEvent(evt18)).pc = "done"

\* the acceptor went through the collision: sta12 is entered only from sta10, and sta10
\* only from sta07 on evt12; it wrote the A-RELEASE-RP and waits in sta13
AcceptorCollisionRunToSta13 ==
    \E m \in DOMAIN sm :
        /\ ~sm[m].isUser
        /\ sm[m].lastState = sta12
        /\ sm[m].lastEvent = evt14
        /\ sm[m].currentState = sta13
        /\ sm[m].wire = <<AReleaseRp>>
        /\ sm[m].timer = "armed"

\* and from there its loop ended on the tick of the timer
AcceptorCollisionRunToSta01 ==
    \E m \in DOMAIN sm :
        /\ ~sm[m].isUser
        /\ sm[m].lastState = sta13
        /\ sm[m].lastEvent = evt18
        /\ sm[m].pc = "done"
        /\ sm[m].netChState = "open"


\* the events that stand for a PDU of the peer
InboundPDUEvents == {evt03, evt04, evt06, evt10, evt12, evt13, evt16, evt19}

\* in sta13 the step on the events es runs AA-6 or AA-7 and stays in sta13, and a step
\* from sta13 to sta01 is a step on one of the events leaving
Sta13Sinks(es, leaving) ==
    \A m \in DOMAIN sm :
        /\ (/\ sm[m].currentState = sta13
            /\ sm[m].netCh # <<>>
            /\ Head(sm[m].netCh).event \in es
            /\ StepNet(m))
           => /\ sm'[m].lastAction \in {"AA-6", "AA-7"}
              /\ sm'[m].currentState = sta13
        /\ (/\ sm[m].currentState = sta13
            /\ sm[m].pc = "run"
            /\ sm'[m].currentState = sta01)
           => sm'[m].lastEvent \in leaving

\* C24: in sta13 a step on an event that stands for an inbound PDU (evt03, evt04, evt06,
\* evt10, evt12, evt13, evt16, evt19) runs AA-6 or AA-7 and stays in sta13, and only
\* steps on evt17 and evt18 lead from sta13 to sta01.
Sta13SinksInboundPDUs == [][Sta13Sinks(InboundPDUEvents, {evt17, evt18})]_vars

\* the same without the A-ABORT of the peer (evt16) among the PDUs ignored, and with
\* evt15 and evt16 among the events that end the loop
Sta13SinksButAbort ==
    [][Sta13Sinks(InboundPDUEvents \ {evt16}, {evt15, evt16, evt17, evt18})]_vars

\* a machine in sta13 took the A-ABORT of its peer and its loop ended by AA-2
Sta13LeftOnAbortPDU ==
    \E m \in DOMAIN sm :
        /\ sm[m].lastState = sta13
        /\ sm[m].lastEvent = evt16
        /\ sm[m].lastAction = "AA-2"
        /\ sm[m].currentState = sta01
        /\ sm[m].pc = "done"

\* C25: evt18 is only received from the channel timerCh refers to, which is the
\* channel made last and was never cancelled by stopTimer or by a further start: a
\* tick of a timer started before a stopTimer or a restart is never delivered; and no
\* channel delivers evt18 twice.
ArtimDiscipline ==
    /\ [][env.delivered # env'.delivered
            => /\ env'.delivered = Append(env.delivered, env.timerCh)
               /\ env.timerCh = Len(env.channels)
               /\ env.timerCh \notin env.cancelled]_vars
    /\ [](\A i, j \in 1..Len(env.delivered) :
              env.delivered[i] = env.delivered[j] => i = j)

\* a timer was started, fired, and stopTimer was called before its tick was taken; a
\* second timer was started and delivered its tick: the first never did
ArtimDroppedStaleTick ==
    /\ Len(env.channels) >= 3
    /\ env.channels[1] = "tick"
    /\ env.channels[2] = "inert"
    /\ env.delivered = <<3>>
    /\ {1, 2} \subseteq env.cancelled


(***************************************************************************)
(* Properties of DT-1 towards a peer with a small maximum PDU size.        *)
(***************************************************************************)
\* the machine is in sta06, the peer announced a maximum length that leaves no room
\* for a chunk, and the next downcall is a P-DATA request
SendsToTinyPeer(m) ==
    /\ m \in DOMAIN sm
    /\ sm[m].pc = "run"
    /\ sm[m].currentState = sta06
    /\ sm[m].contextManager.peerMaxPDUSize <= ChunkOverhead
    /\ sm[m].downcallCh # <<>>
    /\ Head(sm[m].downcallCh).event = evt09

AbortsOf(pdus) == Len(SelectSeq(pdus, LAMBDA p : p.type = "A-ABORT"))

PDataTfsOf(pdus) == Len(SelectSeq(pdus, LAMBDA p : p.type = "P-DATA-TF"))

\* C26: the step on evt09 in sta06 towards a peer whose maximum PDU size is at most 8
\* writes no P-DATA-TF and is a local abort: an A-ABORT is written, the ARTIM timer is
\* armed, the machine is in sta13 and its loop goes on.
TinyPeerSendAborts ==
    [][\A m \in DOMAIN sm :
          (SendsToTinyPeer(m) /\ StepDowncall(m))
          => /\ sm'[m].pc = "run"
             /\ sm'[m].currentState = sta13
             /\ sm'[m].timer = "armed"
             /\ PDataTfsOf(sm'[m].wire) = 0
             /\ sm'[m].sock = "open" => AbortsOf(sm'[m].wire) = 1]_vars

\* what the step does instead: splitDataIntoPDUs panics, nothing is written and the
\* loop of the machine is over in sta06
TinyPeerSendPanics ==
    [][\A m \in DOMAIN sm :
          (SendsToTinyPeer(m) /\ StepDowncall(m))
          => /\ sm'[m].pc = "panic"
             /\ sm'[m].currentState = sta06
             /\ sm'[m].timer = sm[m].timer
             /\ sm'[m].wire = <<>>]_vars

\* a machine that panicked in sta06 on a P-DATA request towards such a peer
TinyPeerSendPanicked ==
    \E m \in DOMAIN sm :
        /\ sm[m].pc = "panic"
        /\ sm[m].currentState = sta06
        /\ sm[m].lastEvent = evt09
        /\ sm[m].contextManager.peerMaxPDUSize <= ChunkOverhead
        /\ sm[m].wire = <<>>

(***************************************************************************)
(* Properties of the command assembler under any sequence of PDVs          *)
(* (SpecAssembly).                                                         *)
(***************************************************************************)
\* the machine is in sta06 and the next event of netCh is a P-DATA-TF
TakesPData(m) ==
    /\ m \in DOMAIN sm
    /\ sm[m].pc = "run"
    /\ sm[m].currentState = sta06
    /\ sm[m].netCh # <<>>
    /\ Head(sm[m].netCh).event = evt10

\* the PDVs of the PDU on one channel that carry the last bit
LastsOf(pdu, command) ==
    Len(SelectSeq(pdu.Items, LAMBDA item : item.Command = command /\ item.Last))

\* the assembly has seen a last-marked PDV on the channel once the PDU is added
SeenLast(a, pdu, command) ==
    \/ IF command THEN a.readAllCommand ELSE a.readAllData
    \/ LastsOf(pdu, command) >= 1

\* the PDU brings the assembly a second last-marked PDV on the channel
SecondLast(a, pdu, command) ==
    \/ LastsOf(pdu, command) >= 2
    \/ (IF command THEN a.readAllCommand ELSE a.readAllData) /\ LastsOf(pdu, command) >= 1

\* C27: when a P-DATA-TF brings an assembly its second last-marked PDV on the command
\* channel or on the data channel, in the PDU of the first or in a later one, AddDataPDU
\* returns an error and no message, and the step of DT-2 in sta06 runs AA-8: no upcall,
\* an A-ABORT (source 2, reason 0) on an open socket, the ARTIM timer armed, sta13.
SecondLastAborts ==
    [][\A m \in DOMAIN sm :
          (/\ TakesPData(m)
           /\ \E command \in BOOLEAN :
                SecondLast(sm[m].commandAssembler, Head(sm[m].netCh).pdu, command)
           /\ StepNet(m))
          => /\ AddDataPDU(sm[m].commandAssembler, Head(sm[m].netCh).pdu).err # ""
             /\ AddDataPDU(sm[m].commandAssembler, Head(sm[m].netCh).pdu).command = NoMessage
             /\ sm'[m].pc = "run"
             /\ sm'[m].currentState = sta13
             /\ sm'[m].lastAction = "DT-2"
             /\ sm'[m].timer = "armed"
             /\ sm'[m].upcalls = sm[m].upcalls
             /\ sm'[m].sock = "open" => sm'[m].wire = <<AAbort(2, 0)>>]_vars

\* a second last-marked command PDV came in a later PDU than the first, while the
\* assembly waited for its data, and the machine is in sta13
SecondLastInLaterPDU ==
    \E m \in DOMAIN sm :
        /\ sm[m].currentState = sta13
        /\ sm[m].lastState = sta06
        /\ sm[m].lastEvent = evt10
        /\ sm[m].commandAssembler.command = StoreRq
        /\ sm[m].commandAssembler.readAllCommand
        /\ Len(sm[m].commandAssembler.commandBytes) > Len(EncodeMessage(StoreRq))
        /\ sm[m].wire = <<AAbort(2, 0)>>

\* two last-marked data PDVs came in one PDU and the machine is in sta13
SecondDataLastInSamePDU ==
    \E m \in DOMAIN sm :
        /\ sm[m].currentState = sta13
        /\ sm[m].lastState = sta06
        /\ sm[m].lastEvent = evt10
        /\ sm[m].commandAssembler.readAllData
        /\ ~sm[m].commandAssembler.readAllCommand
        /\ sm[m].commandAssembler.dataBytes = DataOf(2) \o DataOf(2)

\* the bytes of the PDU's PDVs on one channel, in order
RECURSIVE ValuesOf(_, _)
ValuesOf(items, command) ==
    IF items = <<>> THEN <<>>
    ELSE (IF Head(items).Command = command THEN Head(items).Value ELSE <<>>)
         \o ValuesOf(Tail(items), command)

\* the command of the assembly: the one it decoded when the command channel saw its
\* last fragment, or the one ReadMessage gives for its command bytes and the PDU's
DecodedCommand(a, pdu) ==
    IF a.command # NoMessage THEN a.command
    ELSE ReadMessage(ParseCommandBytes(a.commandBytes \o ValuesOf(pdu.Items, TRUE)).elems).msg

\* the assembly is complete once the PDU is added: the command channel has seen its
\* last fragment and, when the command has data, so has the data channel
AssemblyComplete(a, pdu) ==
    /\ SeenLast(a, pdu, TRUE)
    /\ HasData(DecodedCommand(a, pdu)) => SeenLast(a, pdu, FALSE)

\* the assembler holds what it held and what the PDU brought
Accumulated(a, pdu, after) ==
    /\ after.contextID = pdu.Items[Len(pdu.Items)].ContextID
    /\ after.commandBytes = a.commandBytes \o ValuesOf(pdu.Items, TRUE)
    /\ after.dataBytes = a.dataBytes \o ValuesOf(pdu.Items, FALSE)
    /\ after.readAllCommand = SeenLast(a, pdu, TRUE)
    /\ after.readAllData = SeenLast(a, pdu, FALSE)

\* C28: a step of DT-2 whose AddDataPDU returns no error (the machine stays in sta06)
\* indicates a message exactly when the assembly is complete with that P-DATA-TF;
\* before that it indicates nothing and the assembler accumulates; the indication
\* carries the context ID of the PDVs, the decoded command and, for a command with
\* data, the bytes of the data channel; and the assembler is then empty again, so
\* that the next assembly may use another context ID.
AssemblyCompletesOnLast ==
    [][\A m \in DOMAIN sm :
          (TakesPData(m) /\ StepNet(m) /\ sm'[m].currentState = sta06)
          => LET a == sm[m].commandAssembler
                 pdu == Head(sm[m].netCh).pdu IN
             /\ sm'[m].pc = "run"
             /\ sm'[m].wire = <<>>
             /\ IF AssemblyComplete(a, pdu)
                THEN /\ Len(sm'[m].upcalls) = Len(sm[m].upcalls) + 1
                     /\ LET up == sm'[m].upcalls[Len(sm'[m].upcalls)] IN
                        /\ up.eventType = "Data"
                        /\ up.contextID = pdu.Items[1].ContextID
                        /\ up.command = DecodedCommand(a, pdu)
                        /\ up.command # NoMessage
                        /\ HasData(up.command) =>
                              up.data = a.dataBytes \o ValuesOf(pdu.Items, FALSE)
                     /\ sm'[m].commandAssembler = EmptyAssembler
                ELSE /\ sm'[m].upcalls = sm[m].upcalls
                     /\ Accumulated(a, pdu, sm'[m].commandAssembler)]_vars

\* a C-STORE-RQ that waited for its data was indicated in context 1, and the next
\* message, a C-ECHO-RQ, in context 3
AssembledInTwoContexts ==
    \E m \in DOMAIN sm :
        /\ sm[m].upcalls = <<HandshakeCompleted, DataIndication(1, StoreRq, DataOf(2)),
                             DataIndication(3, EchoRq, <<>>)>>
        /\ sm[m].commandAssembler = EmptyAssembler
        /\ sm[m].currentState = sta06

\* C29: every message indicated for a command without data (HasData() is false)
\* carries no data bytes, whatever PDVs the assembly received, data-channel PDVs
\* before the last fragment of the command included.
NoDataForCommandWithoutData ==
    \A m \in DOMAIN sm : \A i \in 1..Len(sm[m].upcalls) :
        (sm[m].upcalls[i].eventType = "Data" /\ ~HasData(sm[m].upcalls[i].command))
        => sm[m].upcalls[i].data = <<>>

\* what is indicated instead: every byte the data channel received during the assembly
DataChannelBytesIndicated ==
    [][\A m \in DOMAIN sm :
          (TakesPData(m) /\ StepNet(m) /\ Len(sm'[m].upcalls) = Len(sm[m].upcalls) + 1)
          => sm'[m].upcalls[Len(sm'[m].upcalls)].data
               = sm[m].commandAssembler.dataBytes
                 \o ValuesOf(Head(sm[m].netCh).pdu.Items, FALSE)]_vars

\* a C-ECHO-RQ without data was indicated with the byte of a data PDV that came before
\* the last fragment of its command set
EchoIndicatedWithData ==
    \E m \in DOMAIN sm :
        /\ sm[m].currentState = sta06
        /\ sm[m].upcalls = <<HandshakeCompleted, DataIndication(1, EchoRq, DataOf(1))>>

\* the next P-DATA-TF brings an empty assembler the whole command set of msg in one
\* last-marked PDV
TakesWholeCommand(m, msg) ==
    /\ TakesPData(m)
    /\ sm[m].commandAssembler = EmptyAssembler
    /\ \E contextID \in {1, 3} :
          Head(sm[m].netCh).pdu = PDataTf(<<PDV(contextID, TRUE, TRUE, EncodeMessage(msg))>>)

\* C30: the well-formed command set of a message of a supported type is decoded to
\* that message, with its own type and all its fields, whatever its length: the
\* step stays in sta06, a command without data is indicated as it was sent and one with
\* data is kept as it was sent until its data has come.
WellFormedCommandDecodes ==
    [][\A m \in DOMAIN sm : \A msg \in AssemblyMessages :
          (TakesWholeCommand(m, msg) /\ StepNet(m))
          => /\ sm'[m].currentState = sta06
             /\ IF HasData(msg)
                THEN sm'[m].commandAssembler.command = msg
                ELSE /\ Len(sm'[m].upcalls) = Len(sm[m].upcalls) + 1
                     /\ sm'[m].upcalls[Len(sm'[m].upcalls)].command = msg]_vars

\* what the step does instead: a command set shorter than the threshold is never
\* parsed; it is decoded when its CommandField is 48 (C-ECHO-RQ) and is an error
\* (AA-8, sta13) otherwise
ShortCommandDecodesOnlyAsEchoRq ==
    [][\A m \in DOMAIN sm : \A msg \in AssemblyMessages :
          (/\ TakesWholeCommand(m, msg)
           /\ Len(EncodeMessage(msg)) < SmallCommandThreshold
           /\ StepNet(m))
          => IF CommandField(msg) = CommandFieldCEchoRq
             THEN sm'[m].currentState = sta06
             ELSE /\ sm'[m].currentState = sta13
                  /\ sm'[m].upcalls = sm[m].upcalls]_vars

\* the machine aborted on the whole command set of a C-ECHO-RSP
EchoRspNotDecoded ==
    \E m \in DOMAIN sm :
        /\ sm[m].currentState = sta13
        /\ sm[m].lastState = sta06
        /\ sm[m].lastEvent = evt10
        /\ sm[m].commandAssembler.commandBytes = EncodeMessage(EchoRsp)
        /\ sm[m].commandAssembler.readAllCommand
        /\ sm[m].upcalls = <<HandshakeCompleted>>

(***************************************************************************)
(* Properties of the handling of invalid PDUs and transport errors.        *)
(***************************************************************************)
\* the next event of netCh is evt19 and the machine is in one of the states
TakesInvalidPDU(m, states) ==
    /\ m \in DOMAIN sm
    /\ sm[m].pc = "run"
    /\ sm[m].currentState \in states
    /\ sm[m].netCh # <<>>
    /\ Head(sm[m].netCh).event = evt19

\* the step ran AA-8: A-ABORT of source 2 (service provider) on an open socket, the
\* ARTIM timer armed, sta13
RanAa8(before, after) ==
    /\ after.lastAction = "AA-8"
    /\ after.currentState = sta13
    /\ after.timer = "armed"
    /\ after.pc = "run"
    /\ after.sock = "open" => after.wire = <<AAbort(2, 0)>>

\* C31: a step on evt19 in any of sta02..sta12 runs AA-8: it writes an A-ABORT whose
\* source is the service provider, arms the ARTIM timer and leads to sta13.
InvalidPDUAborts ==
    [][\A m \in DOMAIN sm :
          (TakesInvalidPDU(m, States \ {sta01, sta13}) /\ StepNet(m))
          => RanAa8(sm[m], sm'[m])]_vars

\* what holds instead: AA-8 in sta03 and sta05..sta12; AA-1 in sta02, whose A-ABORT
\* has source 0 (service user) and reason 2; no entry for sta04, hence AA-2
InvalidPDUAbortsButSta02 ==
    /\ [][\A m \in DOMAIN sm :
            /\ (TakesInvalidPDU(m, States \ {sta01, sta02, sta04, sta13}) /\ StepNet(m))
               => RanAa8(sm[m], sm'[m])
            /\ (TakesInvalidPDU(m, {sta02}) /\ StepNet(m))
               => /\ sm'[m].lastAction = "AA-1"
                  /\ sm'[m].currentState = sta13
                  /\ sm'[m].timer = "armed"
                  /\ sm'[m].sock = "open" => sm'[m].wire = <<AAbort(0, 2)>>]_vars
    /\ [](/\ \A state \in States \ {sta01, sta02, sta04, sta13} :
                ListedAction(state, evt19) = "AA-8"
          /\ ListedAction(sta02, evt19) = "AA-1"
          /\ <<sta04, evt19>> \notin DOMAIN stateTransitions)

\* the acceptor answered an invalid PDU in sta02 with an A-ABORT of source 0
InvalidPDUInSta02 ==
    \E m \in DOMAIN sm :
        /\ sm[m].lastState = sta02
        /\ sm[m].lastEvent = evt19
        /\ sm[m].lastAction = "AA-1"
        /\ sm[m].currentState = sta13
        /\ sm[m].wire = <<AAbort(0, 2)>>

\* the network reader met a read error in this step: it posted its last event and
\* exited
ReaderFailed(m) ==
    /\ m \in DOMAIN sm
    /\ sm[m].reader = "running"
    /\ sm'[m].reader = "exited"

\* a write of sendPDU failed in this step of the machine: the socket was open, is
\* closed now, and no action closed the connection
WriteFailed(m) ==
    /\ m \in DOMAIN sm
    /\ sm[m].pc = "run"
    /\ sm[m].sock = "open"
    /\ sm'[m].sock = "closed"
    /\ sm'[m].upcallCloses = sm[m].upcallCloses

\* a failed write closed the socket and posted evt17 on the error channel
WriteErrorPostsEvt17(m) ==
    WriteFailed(m)
    => /\ sm'[m].errorCh # <<>>
       /\ sm'[m].errorCh[Len(sm'[m].errorCh)].event = evt17
       /\ Len(sm'[m].errorCh) > Len(sm[m].errorCh)

\* C32: every read error of the network reader, EOF or not, gives the machine an
\* evt17, with the socket closed when it was not an EOF; and every failed write of
\* sendPDU closes the socket and posts evt17.
TransportErrorsGiveEvt17 ==
    [][\A m \in DOMAIN sm :
          /\ ReaderFailed(m) => sm'[m].netCh[Len(sm'[m].netCh)].event = evt17
          /\ WriteErrorPostsEvt17(m)]_vars

\* what holds instead: a read error that is no EOF gives evt19, the reader leaves the
\* socket as it is, and no evt17 is posted for it
ReadErrorGivesEvt17OrEvt19 ==
    [][\A m \in DOMAIN sm :
          /\ ReaderFailed(m)
             => /\ sm'[m].netCh[Len(sm'[m].netCh)].event \in {evt17, evt19}
                /\ sm'[m].sock = sm[m].sock
                /\ sm'[m].errorCh = sm[m].errorCh
                /\ sm'[m].netChState = "closed"
          /\ WriteErrorPostsEvt17(m)]_vars

\* the machine took the evt19 of a failed read in sta06: its socket is open and it
\* has received no evt17
ReadErrorDeliveredAsEvt19 ==
    \E m \in DOMAIN sm :
        /\ sm[m].lastState = sta06
        /\ sm[m].lastEvent = evt19
        /\ sm[m].reader = "exited"
        /\ sm[m].sock = "open"
        /\ sm[m].conn = "set"
        /\ sm[m].errorCh = <<>>
        /\ sm[m].upcallCloses = 0

\* a write failed and its evt17 is on the error channel
WriteErrorPosted ==
    \E m \in DOMAIN sm :
        /\ sm[m].pc = "run"
        /\ sm[m].sock = "closed"
        /\ sm[m].errorCh = <<PlainEvent(evt17)>>

(***************************************************************************)
(* Properties of the network reader (SpecReader).                          *)
(***************************************************************************)
\* the event of each PDU type
EventOfType ==
    [t \in {"A-ASSOCIATE-RQ", "A-ASSOCIATE-AC", "A-ASSOCIATE-RJ", "P-DATA-TF",
            "A-RELEASE-RQ", "A-RELEASE-RP", "A-ABORT"} |->
        CASE t = "A-ASSOCIATE-RQ" -> 6
          [] t = "A-ASSOCIATE-AC" -> 3
          [] t = "A-ASSOCIATE-RJ" -> 4
          [] t = "P-DATA-TF" -> 10
          [] t = "A-RELEASE-RQ" -> 12
          [] t = "A-RELEASE-RP" -> 13
          [] t = "A-ABORT" -> 16]

\* the events waiting in netCh
EventsIn(ch) == [i \in 1..Len(ch) |-> ch[i].event]

\* C34: the reader has posted one event per PDU it read, in arrival order and by the
\* fixed mapping, and after its first read error one more event (evt17 or evt19), with
\* its channel closed; the events the machine has received from netCh are the first of
\* the posted ones, in the same order, and the others wait in netCh in that order; and
\* once the read has failed nothing more is posted.
ReaderKeepsArrivalOrder ==
    /\ [](\A m \in DOMAIN sm :
            /\ Len(env.posted) = Len(env.arrived) + (IF env.failed THEN 1 ELSE 0)
            /\ \A i \in 1..Len(env.arrived) :
                  env.posted[i] = EventOfType[env.arrived[i].type]
            /\ Len(env.dispatched) <= Len(env.posted)
            /\ env.dispatched = Take(env.posted, Len(env.dispatched))
            /\ sm[m].pc = "run" =>
                  EventsIn(sm[m].netCh) = Drop(env.posted, Len(env.dispatched))
            /\ env.failed <=> sm[m].reader = "exited"
            /\ env.failed =>
                  /\ env.posted[Len(env.posted)] \in {evt17, evt19}
                  /\ sm[m].netChState \in {"closed", "nil"})
    /\ [][env.failed => env'.posted = env.posted /\ env'.arrived = env.arrived]_vars

\* the reader ran two events ahead of the machine, failed, and the machine has received
\* the three events in the order of their posting
ReaderRanAhead ==
    \E m \in DOMAIN sm :
        /\ env.failed
        /\ Len(env.arrived) = 2
        /\ env.arrived[1].type # env.arrived[2].type
        /\ env.dispatched = env.posted
        /\ Len(env.dispatched) = 3
        /\ sm[m].netChState = "nil"

(***************************************************************************)
(* Properties of the sends of an action on a channel (SpecBulk).           *)
(***************************************************************************)
\* the next downcall of the machine is a P-DATA request and the machine is in sta06
TakesPDataRequest(m) ==
    /\ m \in DOMAIN sm
    /\ sm[m].pc = "run"
    /\ sm[m].currentState = sta06
    /\ sm[m].downcallCh # <<>>
    /\ Head(sm[m].downcallCh).event = evt09

\* C35: no action of the machine blocks on a channel operation: the task of the
\* machine waits only in the receive of getNextEvent.
NoActionBlocks == \A m \in DOMAIN sm : sm[m].pc # "blocked"

\* an action that posts at most as many evt17 as the error channel has room for
\* does not block
FewFailuresDoNotBlock ==
    [][\A m \in DOMAIN sm :
          (TakesPDataRequest(m) /\ StepDowncall(m) /\ sm'[m].pc = "blocked")
          => Len(sm'[m].errorCh) = ErrorChCapacity]_vars

\* DT-1 is blocked in sendPDU, in the send on the full error channel
BlockedInSendPDU ==
    \E m \in DOMAIN sm :
        /\ sm[m].pc = "blocked"
        /\ sm[m].lastAction = "DT-1"
        /\ sm[m].sock = "closed"
        /\ Len(sm[m].errorCh) = ErrorChCapacity

\* C36: a DT-1 whose writes fail returns however many fragments it has to send: the
\* socket is closed, an evt17 is queued on the error channel for each failed write,
\* and the machine goes on in sta06, from where the first evt17 takes it to sta01.
FailedDt1Returns ==
    [][\A m \in DOMAIN sm :
          (TakesPDataRequest(m) /\ StepDowncall(m) /\ sm'[m].sock = "closed")
          => /\ sm'[m].pc = "run"
             /\ sm'[m].currentState = sta06
             /\ sm'[m].errorCh # <<>>
             /\ \A i \in 1..Len(sm'[m].errorCh) : sm'[m].errorCh[i].event = evt17]_vars

\* what holds instead: the DT-1 returns when its failed writes are at most the room
\* of the error channel, and blocks otherwise with the channel full
FailedDt1ReturnsOrBlocks ==
    [][\A m \in DOMAIN sm :
          (TakesPDataRequest(m) /\ StepDowncall(m) /\ sm'[m].sock = "closed")
          => /\ sm'[m].pc \in {"run", "blocked"}
             /\ sm'[m].currentState = sta06
             /\ sm'[m].errorCh # <<>>
             /\ \A i \in 1..Len(sm'[m].errorCh) : sm'[m].errorCh[i].event = evt17
             /\ sm'[m].pc = "blocked" => Len(sm'[m].errorCh) = ErrorChCapacity]_vars

\* a DT-1 with failed writes returned, and the evt17 took the machine to sta01
FailedDt1ThenSta01 ==
    \E m \in DOMAIN sm :
        /\ sm[m].pc = "done"
        /\ sm[m].currentState = sta01
        /\ sm[m].lastEvent = evt17
        /\ sm[m].sock = "closed"

(***************************************************************************)
(* Properties of the release by the acceptor (SpecRelease).                *)
(***************************************************************************)
\* the machine takes event e from its downcall channel in the state given
TakesDowncall(m, state, e) ==
    /\ ReleaseStepDowncall(m)
    /\ sm[m].currentState = state
    /\ Head(sm[m].downcallCh).event = e

ReleaseRpsSent == Len(SelectSeq(env.sent, LAMBDA p : p.type = "A-RELEASE-RP"))

\* AR-2: evt12 in sta06 posts evt14 behind what is queued and writes nothing
ReleaseIndicated(m) ==
    (ReleaseStepNet(m) /\ sm[m].currentState = sta06 /\ Head(sm[m].netCh).event = evt12)
    => /\ sm'[m].pc = "run"
       /\ sm'[m].currentState = sta08
       /\ sm'[m].downcallCh = Append(sm[m].downcallCh, PlainEvent(evt14))
       /\ sm'[m].wire = <<>>

\* AR-7: evt09 in sta08 is transmitted and posts a further evt14
SentWhileReleasing(m) ==
    TakesDowncall(m, sta08, evt09)
    => /\ sm'[m].pc = "run"
       /\ sm'[m].currentState = sta08
       /\ sm'[m].downcallCh = Append(Tail(sm[m].downcallCh), PlainEvent(evt14))
       /\ sm'[m].sock = "open" => /\ sm'[m].wire # <<>>
                                  /\ PDataTfsOf(sm'[m].wire) = Len(sm'[m].wire)

\* AR-4: the first evt14 sends the A-RELEASE-RP and arms the ARTIM timer
ReleaseResponded(m) ==
    TakesDowncall(m, sta08, evt14)
    => /\ sm'[m].pc = "run"
       /\ sm'[m].currentState = sta13
       /\ sm'[m].timer = "armed"
       /\ sm'[m].sock = "open" => sm'[m].wire = <<AReleaseRp>>

\* AA-6: a later evt14 is ignored
LaterResponseIgnored(m) ==
    TakesDowncall(m, sta13, evt14)
    => sm'[m] = [sm[m] EXCEPT !.downcallCh = Tail(@), !.wire = <<>>,
                              !.lastState = sta13, !.lastEvent = evt14,
                              !.lastAction = "AA-6"]

\* C37: the acceptor's release: evt12 in sta06 posts evt14 on the machine's own
\* downcall channel and leads to sta08; the evt09s ahead of that evt14 are sent in
\* sta08, each posting a further evt14; the first evt14 sends the A-RELEASE-RP, arms
\* the ARTIM timer and leads to sta13, where every later evt14 is ignored: at most one
\* A-RELEASE-RP is ever written, and exactly one once the machine is in sta13 on a
\* transport that has not failed.
AcceptorReleasesOnce ==
    /\ [](ReleaseRpsSent <= 1)
    /\ [](\A m \in DOMAIN sm :
             (sm[m].currentState = sta13 /\ sm[m].sock = "open") => ReleaseRpsSent = 1)
    /\ [][\A m \in DOMAIN sm :
             /\ ReleaseIndicated(m)
             /\ SentWhileReleasing(m)
             /\ ReleaseResponded(m)
             /\ LaterResponseIgnored(m)]_vars

\* the machine sent a message in sta08, then the A-RELEASE-RP, and has ignored the
\* evt14 that AR-7 posted
ReleasedAfterSending ==
    \E m \in DOMAIN sm :
        /\ sm[m].pc = "run"
        /\ sm[m].currentState = sta13
        /\ sm[m].lastAction = "AA-6"
        /\ sm[m].lastEvent = evt14
        /\ ReleaseRpsSent = 1
        /\ \E i \in 1..Len(env.sent) : env.sent[i].action = "AR-7"

(***************************************************************************)
(* Properties of the upcall channel.                                       *)
(***************************************************************************)
UpcallActions == {"AE-3", "AE-7", "DT-2"}

\* C38: nothing is sent on the upcall channel once it is closed: a machine whose last
\* step ran AE-3, AE-7 or DT-2 has not closed the channel, before or in that step; only
\* these steps send an upcall; and a machine that has closed the channel has left its
\* loop.
UpcallsPrecedeClose ==
    /\ [](\A m \in DOMAIN sm : sm[m].upcallCloses > 0 => sm[m].pc # "run")
    /\ [](\A m \in DOMAIN sm : sm[m].lastAction \in UpcallActions => sm[m].upcallCloses = 0)
    /\ [][\A m \in DOMAIN sm :
             sm'[m].upcalls # sm[m].upcalls
             => /\ sm'[m].lastAction \in UpcallActions
                /\ sm[m].upcallCloses = 0
                /\ Len(sm'[m].upcalls) > Len(sm[m].upcalls)
                /\ SubSeq(sm'[m].upcalls, 1, Len(sm[m].upcalls)) = sm[m].upcalls]_vars

\* the machine sent HandshakeCompleted and a DataIndication, and closed the channel
\* after them
ClosedAfterUpcalls ==
    \E m \in DOMAIN sm :
        /\ sm[m].pc = "done"
        /\ sm[m].upcallCloses = 1
        /\ Len(sm[m].upcalls) >= 2
        /\ sm[m].upcalls[1] = HandshakeCompleted
        /\ \E i \in 1..Len(sm[m].upcalls) : sm[m].upcalls[i].eventType = "Data"

(***************************************************************************)
(* Properties of the states the ARTIM timer runs in.                       *)
(***************************************************************************)
\* the states in which the machine waits for the peer under the ARTIM timer
ArtimStates == {sta02, sta05, sta13}

\* C39: the ARTIM timer is armed, or its tick pending, only in sta02, sta05 and sta13
\* (and in sta01, where the loop is over): in sta03, sta04 and sta06..sta12 it is
\* neither, and no step for evt18 starts from a state other than sta02, sta05 and
\* sta13.
ArtimOnlyWhereAwaited ==
    \A m \in DOMAIN sm :
        /\ sm[m].timer \in {"armed", "fired"} => sm[m].currentState \in ArtimStates \cup {sta01}
        /\ sm[m].lastEvent = evt18 => sm[m].lastState \in ArtimStates

\* a requestor left sta05 for sta06 with its timer stopped
TimerStoppedOnEstablishment ==
    \E m \in DOMAIN sm :
        /\ sm[m].pc = "run"
        /\ sm[m].lastState = sta05
        /\ sm[m].lastAction = "AE-3"
        /\ sm[m].currentState = sta06
        /\ sm[m].timer = "inert"

\* the tick was dispatched in sta05
TickDispatchedInSta05 ==
    \E m \in DOMAIN sm : sm[m].lastEvent = evt18 /\ sm[m].lastState = sta05

(***************************************************************************)
(* Properties of the connection sendPDU writes to.                         *)
(***************************************************************************)
\* the actions that call sendPDU
SendingActions ==
    {"AE-2", "AE-3", "AE-6", "AE-7", "AE-8", "DT-1", "AR-1", "AR-3", "AR-4", "AR-7", "AR-9",
     "AA-1", "AA-7", "AA-8"}

\* the action runOneStep runs for event e in the state given
ActionIn(state, e) == actionFor(findAction(state, PlainEvent(e)))

\* C40: sendPDU is never called while conn is nil: no machine stops on the assertion
\* at its top, every PDU is written with the connection set, the steps for evt17 write
\* nothing, a requestor in sta04 has written nothing, and the table has no action that
\* calls sendPDU for evt17, nor for an event in sta04 other than evt02.
SendPDUHasConn ==
    /\ \A state \in States : ActionIn(state, evt17) \notin SendingActions
    /\ \A e \in Events \ {evt02} : ActionIn(sta04, e) \notin SendingActions
    /\ \A m \in DOMAIN sm :
          /\ sm[m].pc = "panic" => sm[m].conn # "nil"
          /\ sm[m].wire # <<>> => sm[m].conn # "nil"
          /\ sm[m].lastEvent = evt17 => sm[m].conn = "nil" /\ sm[m].wire = <<>>
          /\ sm[m].currentState = sta04 => sm[m].conn = "nil" /\ sm[m].wire = <<>>

\* the requestor wrote its A-ASSOCIATE-RQ in the step for evt02, which set conn
RequestSentOnceConnected ==
    \E m \in DOMAIN sm :
        /\ sm[m].isUser
        /\ sm[m].lastState = sta04
        /\ sm[m].lastEvent = evt02
        /\ sm[m].conn # "nil"
        /\ Len(sm[m].wire) = 1
        /\ sm[m].wire[1].type = "A-ASSOCIATE-RQ"

\* an established machine lost its transport: the step for evt17 wrote nothing
TransportLostWhileEstablished ==
    \E m \in DOMAIN sm :
        /\ sm[m].lastState = sta06
        /\ sm[m].lastEvent = evt17
        /\ sm[m].conn = "nil"
        /\ sm[m].pc = "done"

(***************************************************************************)
(* Properties of the connected pair (SpecPair).                            *)
(***************************************************************************)
DataIndicationsOf(s) == Len(SelectSeq(s.upcalls, LAMBDA u : u.eventType = "Data"))

\* both machines have left their loops and no ARTIM timer has expired
ExchangeOver(scenario) ==
    /\ env.scenario = scenario
    /\ ~env.expired
    /\ DOMAIN sm = Roles
    /\ \A m \in Roles : sm[m].pc # "run"

\* each side indicated one message, is in sta01 with its upcall channel closed, and no
\* A-ABORT was written
CleanExchange ==
    \A m \in Roles :
        /\ DataIndicationsOf(sm[m]) = 1
        /\ sm[m].pc = "done"
        /\ sm[m].currentState = sta01
        /\ sm[m].upcallCloses = 1
        /\ AbortsOf(env.sent[m]) = 0

\* C6: once the C-ECHO exchange between a requestor and an acceptor is over, each side
\* has emitted exactly one DataIndication and is in sta01 with its upcall channel
\* closed, and neither side has sent an A-ABORT.
EchoExchangeClean == ExchangeOver("echo") => CleanExchange

\* the same exchange with a C-STORE, whose command sets are longer, is clean
StoreExchangeClean == ExchangeOver("store") => CleanExchange

====
